---- MODULE Spec2Model ----
(***************************************************************************)
(* RealDeal: deal scoring, market-value estimation, the tiered enrichment  *)
(* services, the backend search handlers and the client search cache.      *)
(*                                                                         *)
(* Numbers.  Prices, floor areas, zestimates and scores are integers.      *)
(* Medians and $/sqft figures are JavaScript Numbers that need not be      *)
(* integers; they are modelled as exact rationals <<n, d>> with d > 0, in  *)
(* lowest terms.  A missing numeric field (null / undefined) is modelled   *)
(* as 0: every read of such a field in the source is a truthiness test     *)
(* (`x && ...`, `!x`, `x || y`), which treats null, undefined and 0 alike. *)
(***************************************************************************)
EXTENDS Integers, Sequences, FiniteSets, TLC

VARIABLES
    scoreIn,     \* SpecScore: the pair of property objects handed to scoreDeal
    scoreOut,    \* SpecScore: the pair of scores returned (<<>> before the call)
    estIn,       \* SpecEstimate: [listing, marketData] handed to estimateMarketValue
    estOut,      \* SpecEstimate: what the backend and the client function returned
    request,     \* the search request being served: [mode, latitude, longitude, filters]
    pc,          \* position of the search handler
    page,        \* fetch loop: page
    hasMore,     \* fetch loop: hasMore
    allListings, \* the handler's working set, in fetch order
    areaMedian,  \* marketData.areaPriceMedian of the run
    batch,       \* enrichBatch: the sorted, capped batch (indexes into allListings)
    datafinMap,  \* enrichBatch: street -> lien record returned by fetchDatafinitiBatch
    cursor,      \* loop index of the enrich loop and of the filter loop
    results,     \* the handler's results array
    sent,        \* what the handler has written to the response, in order
    calls,       \* number of calls issued to each external service
    db,          \* the Property collection: its documents, in insertion order
    alerts,      \* the documents handed to sendWhatsAppAlert, in call order
    searchCoords,    \* client: coordinates of the location searched, <<>> for null
    areaBounds,      \* client: bounds of the location searched, <<>> for null
    filters,         \* client: the filter set of the sidebar
    searchCache,     \* client: searchCache.current, key -> [results, timestamp]
    now,             \* client: Date.now(), in ms
    searchResults,   \* client: the results shown, <<"null">> for null
    pipelineRunning, \* client: a search is running
    stream,          \* client: cache key of the open EventSource, <<>> when none
    requests,        \* client: number of requests issued to the search pipeline
    drawMode,        \* client: the map is in draw mode
    drawnBounds,     \* client: the rectangle drawn on the map, <<>> for null
    drawSearchLoading, \* client: a search of the drawn area is running
    tierIn,      \* SpecTierCall: the operation called, its listings, what its lookups do
    tierOut,     \* SpecTierCall: the listings after the call (<<>> before it)
    hooks,       \* SpecStore: per run, the post hook in progress and its document
    statIn,      \* SpecStats: the samples, and a value beyond all of them
    statOut,     \* SpecStats: what median and trimmedMedian return for them
    geoIn,       \* SpecGeo: listings with coordinates, and a bounding rectangle
    geoOut,      \* SpecGeo: the area statistics and the listings shown for them
    connected,   \* the consumer of the response has not disconnected
    searchLoading \* client: handleLocationSearch awaits the geocoder

scoreVars == <<scoreIn, scoreOut>>
estVars == <<estIn, estOut>>
runVars == <<request, pc, page, hasMore, allListings, areaMedian, batch,
             datafinMap, cursor, results, sent, calls, db, alerts>>
tierVars == <<tierIn, tierOut>>
storeVars == <<hooks>>
statVars == <<statIn, statOut>>
geoVars == <<geoIn, geoOut>>
drawVars == <<drawMode, drawnBounds, drawSearchLoading>>
clientVars == <<searchCoords, areaBounds, filters, searchCache, now,
                searchResults, pipelineRunning, stream, requests, drawVars>>
vars == <<scoreIn, scoreOut, estIn, estOut, request, pc, page, hasMore,
          allListings, areaMedian, batch, datafinMap, cursor, results, sent,
          calls, db, alerts, searchCoords, areaBounds, filters, searchCache, now,
          searchResults, pipelineRunning, stream, requests, drawMode,
          drawnBounds, drawSearchLoading, tierIn, tierOut, hooks,
          statIn, statOut, geoIn, geoOut, connected, searchLoading>>

----------------------------------------------------------------------------
(* JavaScript Number arithmetic on exact rationals *)

Abs(x) == IF x < 0 THEN -x ELSE x

RECURSIVE Gcd(_, _)
Gcd(a, b) == IF b = 0 THEN a ELSE Gcd(b, a % b)

\* the rational n/d (d # 0) in lowest terms with a positive denominator
Rat(n, d) ==
    LET s == IF d < 0 THEN -1 ELSE 1
        g == Gcd(Abs(n), Abs(d))
    IN  <<(s * n) \div g, (s * d) \div g>>

RInt(n) == <<n, 1>>
Zero == <<0, 1>>

RLt(a, b) == a[1] * b[2] < b[1] * a[2]
RLe(a, b) == a[1] * b[2] <= b[1] * a[2]
RGt(a, b) == RLt(b, a)
RGe(a, b) == RLe(b, a)
RAdd(a, b) == Rat(a[1] * b[2] + b[1] * a[2], a[2] * b[2])
RSub(a, b) == Rat(a[1] * b[2] - b[1] * a[2], a[2] * b[2])
RMul(a, b) == Rat(a[1] * b[1], a[2] * b[2])
\* a / b for b # 0
RDiv(a, b) == Rat(a[1] * b[2], a[2] * b[1])
\* JavaScript truthiness of a Number
Truthy(a) == a[1] # 0
\* x || y on Numbers
OrElse(a, b) == IF Truthy(a) THEN a ELSE b
\* Math.round: the nearest integer, a tie going up
MathRound(a) == (2 * a[1] + a[2]) \div (2 * a[2])

Min(a, b) == IF a < b THEN a ELSE b

----------------------------------------------------------------------------
(* backend/utils/dealScorer.js *)

\* the price-versus-market component of scoreDeal (lines 15-25)
PricePoints(property) ==
    IF property.price # 0 /\ Truthy(property.marketMedian)
                          /\ RGt(property.marketMedian, Zero)
    THEN LET ratio == RDiv(RInt(property.price), property.marketMedian)
         IN  IF RLt(ratio, Rat(75, 100)) THEN 40
             ELSE IF RLt(ratio, Rat(80, 100)) THEN 25
             ELSE IF RLt(ratio, Rat(85, 100)) THEN 15
             ELSE 0
    ELSE 0

\* A variant with the `else` of the ratio ladder dropped and no final clamp.
scoreDealNoClamp(property) ==
    LET ladder ==
            IF property.price # 0 /\ Truthy(property.marketMedian)
                                  /\ RGt(property.marketMedian, Zero)
            THEN LET ratio == RDiv(RInt(property.price), property.marketMedian)
                 IN  (IF RLt(ratio, Rat(75, 100)) THEN 40 ELSE 0)
                     + (IF RLt(ratio, Rat(80, 100)) THEN 25 ELSE 0)
                     + (IF RLt(ratio, Rat(85, 100)) THEN 15 ELSE 0)
            ELSE 0
    IN  ladder
        + (IF property.isDelinquent THEN 30 ELSE 0)
        + (IF property.daysOnMarket > 60 THEN 10 ELSE 0)
        + (IF property.hasTaxLien THEN 10 ELSE 0)
        + (IF property.isAsIs THEN 10 ELSE 0)

\* A variant whose ratio ladder awards the points in the reverse order.
scoreDealReversed(property) ==
    LET ladder ==
            IF property.price # 0 /\ Truthy(property.marketMedian)
                                  /\ RGt(property.marketMedian, Zero)
            THEN LET ratio == RDiv(RInt(property.price), property.marketMedian)
                 IN  IF RLt(ratio, Rat(75, 100)) THEN 15
                     ELSE IF RLt(ratio, Rat(80, 100)) THEN 25
                     ELSE IF RLt(ratio, Rat(85, 100)) THEN 40
                     ELSE 0
            ELSE 0
    IN  Min(ladder
            + (IF property.isDelinquent THEN 30 ELSE 0)
            + (IF property.daysOnMarket > 60 THEN 10 ELSE 0)
            + (IF property.hasTaxLien THEN 10 ELSE 0)
            + (IF property.isAsIs THEN 10 ELSE 0), 100)

scoreDeal(property) ==
    LET score == PricePoints(property)
                 + (IF property.isDelinquent THEN 30 ELSE 0)
                 + (IF property.daysOnMarket > 60 THEN 10 ELSE 0)
                 + (IF property.hasTaxLien THEN 10 ELSE 0)
                 + (IF property.isAsIs THEN 10 ELSE 0)
    IN  Min(score, 100)

----------------------------------------------------------------------------
(* backend/routes/properties.js: statistics and market data *)

\* [...arr].sort((a, b) => a - b): insertion of x into an ascending sequence
RECURSIVE InsertAsc(_, _)
InsertAsc(x, sorted) ==
    IF sorted = <<>> THEN <<x>>
    ELSE IF RLt(x, Head(sorted)) THEN <<x>> \o sorted
    ELSE <<Head(sorted)>> \o InsertAsc(x, Tail(sorted))

\* A variant that leaves the array in the order given.
SortAscNone(arr) == arr

RECURSIVE SortAsc(_)
SortAsc(arr) ==
    IF arr = <<>> THEN <<>> ELSE InsertAsc(Head(arr), SortAsc(Tail(arr)))

median(arr) ==
    IF Len(arr) = 0 THEN Zero
    ELSE LET sorted == SortAsc(arr)
             mid == Len(sorted) \div 2
         IN  IF Len(sorted) % 2 = 0
             THEN RDiv(RAdd(sorted[mid], sorted[mid + 1]), RInt(2))
             ELSE sorted[mid + 1]

\* Math.floor(sorted.length * 0.15); the double product floors to the same
\* integer as the exact 15 n / 100
TrimCount(n) == (n * 15) \div 100

\* A variant that trims the top of the sorted samples only.
trimmedMedianTopOnly(arr) ==
    IF Len(arr) < 5 THEN median(arr)
    ELSE LET sorted == SortAsc(arr)
             trim == TrimCount(Len(sorted))
         IN  median(SubSeq(sorted, 1, Len(sorted) - trim))

trimmedMedian(arr) ==
    IF Len(arr) < 5 THEN median(arr)
    ELSE LET sorted == SortAsc(arr)
             trim == TrimCount(Len(sorted))
         IN  median(SubSeq(sorted, trim + 1, Len(sorted) - trim))

MIN_SAMPLES == 3

\* l.address?.zip || 'unknown' and l.propertyType || 'unknown'
ZipOf(l) == IF l.zip = "" THEN "unknown" ELSE l.zip
TypeOf(l) == IF l.propertyType = "" THEN "unknown" ELSE l.propertyType
\* `${zip}|${type}`
KeyOf(l) == <<ZipOf(l), TypeOf(l)>>

\* map[k], undefined (modelled as 0) when k is no key of the map
Get(map, k) == IF k \in DOMAIN map THEN map[k] ELSE Zero

\* the values f(l) of the listings of a sequence that satisfy keep, in order
Collect(listings, keep(_), f(_)) ==
    LET kept == SelectSeq(listings, keep)
    IN  [i \in 1..Len(kept) |-> f(kept[i])]

\* A variant that lets every listing contribute.
PricedAny(l) == TRUE

Priced(l) == l.price # 0 /\ l.price > 0
HasSqft(l) == l.sqft # 0 /\ l.sqft > 0
PpsfOf(l) == Rat(l.price, l.sqft)
PriceOf(l) == RInt(l.price)

computeMarketData(listings) ==
    LET InKey(k, l) == Priced(l) /\ KeyOf(l) = k
        InZip(z, l) == Priced(l) /\ ZipOf(l) = z
        all == {listings[i] : i \in 1..Len(listings)}
        ppsf_zipType(k) == Collect(listings, LAMBDA l : InKey(k, l) /\ HasSqft(l), PpsfOf)
        ppsf_zip(z) == Collect(listings, LAMBDA l : InZip(z, l) /\ HasSqft(l), PpsfOf)
        price_zipType(k) == Collect(listings, LAMBDA l : InKey(k, l), PriceOf)
        price_zip(z) == Collect(listings, LAMBDA l : InZip(z, l), PriceOf)
        keys == {KeyOf(l) : l \in {x \in all : Priced(x)}}
        zips == {ZipOf(l) : l \in {x \in all : Priced(x)}}
    IN  [ppsfMedians_zipType |->
            [k \in {x \in keys : Len(ppsf_zipType(x)) >= MIN_SAMPLES}
                |-> trimmedMedian(ppsf_zipType(k))],
         ppsfMedians_zip |->
            [z \in {x \in zips : Len(ppsf_zip(x)) >= MIN_SAMPLES}
                |-> trimmedMedian(ppsf_zip(z))],
         areaPpsfMedian |->
            trimmedMedian(Collect(listings, LAMBDA l : Priced(l) /\ HasSqft(l), PpsfOf)),
         priceMedians_zipType |->
            [k \in {x \in keys : Len(price_zipType(x)) >= MIN_SAMPLES}
                |-> trimmedMedian(price_zipType(k))],
         priceMedians_zip |->
            [z \in zips |-> trimmedMedian(price_zip(z))],
         areaPriceMedian |->
            trimmedMedian(Collect(listings, Priced, PriceOf))]

----------------------------------------------------------------------------
(* backend/routes/properties.js: the value estimator *)

ZESTIMATE_MIN_RATIO == Rat(4, 10)
ZESTIMATE_MAX_RATIO == Rat(25, 10)
MAX_ZEST_PPSF == 2000

\* A variant that accepts a zestimate up to 3x the listing price.
isZestimateReliableLoose(zestimate, listing) ==
    IF zestimate = 0 \/ zestimate <= 0 \/ listing.price = 0 \/ listing.price <= 0
    THEN FALSE
    ELSE LET ratio == Rat(zestimate, listing.price)
         IN  IF RGt(ratio, RInt(3)) \/ RLt(ratio, ZESTIMATE_MIN_RATIO) THEN FALSE
             ELSE IF listing.sqft # 0 /\ listing.sqft > 0
                     /\ RGt(Rat(zestimate, listing.sqft), RInt(MAX_ZEST_PPSF))
             THEN FALSE
             ELSE TRUE

isZestimateReliable(zestimate, listing) ==
    IF zestimate = 0 \/ zestimate <= 0 \/ listing.price = 0 \/ listing.price <= 0
    THEN FALSE
    ELSE LET ratio == Rat(zestimate, listing.price)
         IN  IF RGt(ratio, ZESTIMATE_MAX_RATIO) \/ RLt(ratio, ZESTIMATE_MIN_RATIO)
             THEN FALSE
             ELSE IF listing.sqft # 0 /\ listing.sqft > 0
                     /\ RGt(Rat(zestimate, listing.sqft), RInt(MAX_ZEST_PPSF))
             THEN FALSE
             ELSE TRUE

\* ppsfMedians_zipType[key] || ppsfMedians_zip[zip] || areaPpsfMedian
PpsfLookup(listing, marketData) ==
    OrElse(Get(marketData.ppsfMedians_zipType, KeyOf(listing)),
           OrElse(Get(marketData.ppsfMedians_zip, ZipOf(listing)),
                  marketData.areaPpsfMedian))

\* priceMedians_zipType[key] || priceMedians_zip[zip] || areaPriceMedian || 0
PriceMedianLookup(listing, marketData) ==
    OrElse(Get(marketData.priceMedians_zipType, KeyOf(listing)),
           OrElse(Get(marketData.priceMedians_zip, ZipOf(listing)),
                  OrElse(marketData.areaPriceMedian, Zero)))

\* The value returned and the return statement that produced it.
estimateReturn(listing, marketData) ==
    IF isZestimateReliable(listing.zestimate, listing)
    THEN [value |-> RInt(listing.zestimate), via |-> "zestimate"]
    ELSE LET ppsf == PpsfLookup(listing, marketData)
         IN  IF HasSqft(listing) /\ RGt(ppsf, Zero)
             THEN [value |-> RInt(MathRound(RMul(ppsf, RInt(listing.sqft)))),
                   via |-> "ppsf"]
             ELSE [value |-> PriceMedianLookup(listing, marketData),
                   via |-> "priceMedian"]

estimateMarketValue(listing, marketData) == estimateReturn(listing, marketData).value

----------------------------------------------------------------------------
(* frontend/src/utils/clientScorer.js: the client's value estimator *)

isZestimateReliableClient(zestimate, property) ==
    IF zestimate = 0 \/ zestimate <= 0 \/ property.price = 0 \/ property.price <= 0
    THEN FALSE
    ELSE LET ratio == Rat(zestimate, property.price)
         IN  IF RGt(ratio, ZESTIMATE_MAX_RATIO) \/ RLt(ratio, ZESTIMATE_MIN_RATIO)
             THEN FALSE
             ELSE IF property.sqft # 0 /\ property.sqft > 0
                     /\ RGt(Rat(zestimate, property.sqft), RInt(MAX_ZEST_PPSF))
             THEN FALSE
             ELSE TRUE

estimateReturnClient(property, marketData) ==
    IF isZestimateReliableClient(property.zestimate, property)
    THEN [value |-> RInt(property.zestimate), via |-> "zestimate"]
    ELSE LET priceMedian == PriceMedianLookup(property, marketData)
             ppsf == PpsfLookup(property, marketData)
             ppsfEstimate == RInt(MathRound(RMul(ppsf, RInt(property.sqft))))
             divergence == RDiv(ppsfEstimate, priceMedian)
         IN  IF HasSqft(property) /\ RGt(ppsf, Zero)
             THEN IF RGt(priceMedian, Zero)
                     /\ (RGt(divergence, RInt(3)) \/ RLt(divergence, Rat(25, 100)))
                  THEN [value |-> priceMedian, via |-> "priceMedian"]
                  ELSE IF RGt(priceMedian, Zero)
                          /\ (RGt(divergence, Rat(15, 10)) \/ RLt(divergence, Rat(5, 10)))
                  THEN [value |-> RInt(MathRound(RAdd(RMul(priceMedian, Rat(7, 10)),
                                                      RMul(ppsfEstimate, Rat(3, 10))))),
                        via |-> "blend"]
                  ELSE [value |-> ppsfEstimate, via |-> "ppsf"]
             ELSE [value |-> priceMedian, via |-> "priceMedian"]

estimateMarketValueClient(property, marketData) ==
    estimateReturnClient(property, marketData).value

\* the client's computeMarketData: the buckets are filled in one loop over
\* the properties, allPpsf is Object.values(ppsf_zip).flat() (only its
\* median is used), allPrices the positive prices in order
computeMarketDataClient(properties) ==
    LET Counted(p) == p.price # 0 /\ p.price > 0
        Sized(p) == p.sqft # 0 /\ p.sqft > 0
        ppsf_zipType(k) ==
            Collect(properties, LAMBDA p : Counted(p) /\ Sized(p) /\ KeyOf(p) = k, PpsfOf)
        ppsf_zip(z) ==
            Collect(properties, LAMBDA p : Counted(p) /\ Sized(p) /\ ZipOf(p) = z, PpsfOf)
        price_zipType(k) ==
            Collect(properties, LAMBDA p : Counted(p) /\ KeyOf(p) = k, PriceOf)
        price_zip(z) ==
            Collect(properties, LAMBDA p : Counted(p) /\ ZipOf(p) = z, PriceOf)
        counted == {properties[i] : i \in {j \in DOMAIN properties : Counted(properties[j])}}
        sized == {p \in counted : Sized(p)}
    IN  [ppsfMedians_zipType |->
            [k \in {KeyOf(p) : p \in {q \in sized :
                        Len(ppsf_zipType(KeyOf(q))) >= MIN_SAMPLES}}
                |-> trimmedMedian(ppsf_zipType(k))],
         ppsfMedians_zip |->
            [z \in {ZipOf(p) : p \in {q \in sized :
                        Len(ppsf_zip(ZipOf(q))) >= MIN_SAMPLES}}
                |-> trimmedMedian(ppsf_zip(z))],
         areaPpsfMedian |->
            trimmedMedian(Collect(properties, LAMBDA p : Counted(p) /\ Sized(p), PpsfOf)),
         priceMedians_zipType |->
            [k \in {KeyOf(p) : p \in {q \in counted :
                        Len(price_zipType(KeyOf(q))) >= MIN_SAMPLES}}
                |-> trimmedMedian(price_zipType(k))],
         priceMedians_zip |->
            [z \in {ZipOf(p) : p \in counted} |-> trimmedMedian(price_zip(z))],
         areaPriceMedian |->
            trimmedMedian(Collect(properties, Counted, PriceOf))]

----------------------------------------------------------------------------
(* No search request is being served. *)

NoCalls == [searchByCoordinates |-> 0, fetchDatafinitiBatch |-> 0,
            fetchAttomData |-> 0, findOneAndUpdate |-> 0]

DefaultFilters ==
    [minDiscount |-> 0, distressType |-> "", minScore |-> 0, propertyType |-> ""]

\* the client as App mounts it
NoClient ==
    /\ searchCoords = <<>> /\ areaBounds = <<>> /\ filters = DefaultFilters
    /\ searchCache = <<>> /\ now = 0 /\ searchResults = <<"null">>
    /\ pipelineRunning = FALSE /\ stream = <<>> /\ requests = 0
    /\ drawMode = FALSE /\ drawnBounds = <<>> /\ drawSearchLoading = FALSE

NoTierCall == tierIn = <<>> /\ tierOut = <<>>

\* no post hook pending
NoStore == hooks = <<>>

NoStats == statIn = <<>> /\ statOut = <<>>

NoGeo == geoIn = <<>> /\ geoOut = <<>>

NoRun ==
    /\ request = <<>> /\ pc = "idle" /\ page = 0 /\ hasMore = FALSE
    /\ allListings = <<>> /\ areaMedian = Zero /\ batch = <<>>
    /\ datafinMap = <<>> /\ cursor = 0 /\ results = <<>> /\ sent = <<>>
    /\ calls = NoCalls /\ db = <<>> /\ alerts = <<>>

----------------------------------------------------------------------------
(* SpecEstimate: both estimators applied to one listing and one market     *)
(* data snapshot.                                                          *)

MaxSqft == 4
MaxPpsf2 == 7

EstPrices == {-1000, 0, 1000}
EstZestimates == {-1000, 0, 399, 400, 2000, 2001, 2500, 2501}
EstPpsfZipType == {Zero} \cup {Rat(k, 2) : k \in 1..MaxPpsf2}
EstPpsfZip == {Zero, RInt(1)}
EstPpsfArea == {Zero, RInt(2)}
EstPriceZipType == {Zero, RInt(4), Rat(9, 2)}
EstPriceZip == {Zero, RInt(4)}
EstPriceArea == {Zero, RInt(3)}

\* a map with the single entry k |-> v, or the empty map when v is 0 (no entry)
MapOf(k, v) == IF v = Zero THEN [x \in {} |-> Zero] ELSE [x \in {k} |-> v]

EstimateInit ==
    /\ \E p \in EstPrices, z \in EstZestimates, a \in 0..MaxSqft,
          fzt \in EstPpsfZipType, fz \in EstPpsfZip, fa \in EstPpsfArea,
          pzt \in EstPriceZipType, pz \in EstPriceZip, pa \in EstPriceArea :
          estIn = [listing |-> [price |-> p, zestimate |-> z, sqft |-> a,
                                zip |-> "z1", propertyType |-> "condo"],
                   marketData |->
                     [ppsfMedians_zipType |-> MapOf(<<"z1", "condo">>, fzt),
                      ppsfMedians_zip |-> MapOf("z1", fz),
                      areaPpsfMedian |-> fa,
                      priceMedians_zipType |-> MapOf(<<"z1", "condo">>, pzt),
                      priceMedians_zip |-> MapOf("z1", pz),
                      areaPriceMedian |-> pa]]
    /\ estOut = <<>>
    /\ scoreIn = <<>> /\ scoreOut = <<>>
    /\ NoRun
    /\ NoClient
    /\ NoTierCall
    /\ NoStore
    /\ NoStats
    /\ NoGeo /\ connected = TRUE /\ searchLoading = FALSE

EstimateCall ==
    /\ estOut = <<>>
    /\ estOut' = [backend |-> estimateReturn(estIn.listing, estIn.marketData),
                  client |-> estimateReturnClient(estIn.listing, estIn.marketData)]
    /\ UNCHANGED <<estIn, scoreVars, runVars, clientVars, tierVars, storeVars, statVars, geoVars, connected, searchLoading>>

SpecEstimate == EstimateInit /\ [][EstimateCall]_vars

----------------------------------------------------------------------------
(* SpecScore: scoreDeal applied to two property objects that differ only   *)
(* in price and market value.                                              *)

MaxPrice == 18

ScorePrices == {-15, 0} \cup ((MaxPrice - 5)..MaxPrice)
ScoreMedians == {Rat(-20, 1), Zero, Rat(20, 1), Rat(41, 2)}
ScoreDays == {0, 60, 61}

ScoreProperty(p, m, dl, tl, ai, dom) ==
    [price |-> p, marketMedian |-> m, isDelinquent |-> dl, hasTaxLien |-> tl,
     isAsIs |-> ai, daysOnMarket |-> dom]

ScoreInit ==
    /\ \E p1 \in ScorePrices, p2 \in ScorePrices,
          m1 \in ScoreMedians, m2 \in ScoreMedians,
          dl \in BOOLEAN, tl \in BOOLEAN, ai \in BOOLEAN, dom \in ScoreDays :
          scoreIn = <<ScoreProperty(p1, m1, dl, tl, ai, dom),
                      ScoreProperty(p2, m2, dl, tl, ai, dom)>>
    /\ scoreOut = <<>>
    /\ estIn = <<>> /\ estOut = <<>>
    /\ NoRun
    /\ NoClient
    /\ NoTierCall
    /\ NoStore
    /\ NoStats
    /\ NoGeo /\ connected = TRUE /\ searchLoading = FALSE

ScoreCall ==
    /\ scoreOut = <<>>
    /\ scoreOut' = <<scoreDeal(scoreIn[1]), scoreDeal(scoreIn[2])>>
    /\ UNCHANGED <<scoreIn, estVars, runVars, clientVars, tierVars, storeVars, statVars, geoVars, connected, searchLoading>>

SpecScore == ScoreInit /\ [][ScoreCall]_vars

----------------------------------------------------------------------------
(* Claims about scoreDeal *)

Positive(property) ==
    property.price > 0 /\ RGt(property.marketMedian, Zero)

PriceRatio(property) == RDiv(RInt(property.price), property.marketMedian)

\* the points the scoring table awards for the price/value ratio r, with no
\* points when price or estimated value is missing or non-positive
TablePoints(property) ==
    IF ~Positive(property) THEN 0
    ELSE IF RLt(PriceRatio(property), Rat(3, 4)) THEN 40
    ELSE IF RLt(PriceRatio(property), Rat(4, 5)) THEN 25
    ELSE IF RLt(PriceRatio(property), Rat(17, 20)) THEN 15
    ELSE 0

TableScore(property) ==
    Min(100, TablePoints(property)
             + 30 * (IF property.isDelinquent THEN 1 ELSE 0)
             + 10 * (IF property.daysOnMarket > 60 THEN 1 ELSE 0)
             + 10 * (IF property.hasTaxLien THEN 1 ELSE 0)
             + 10 * (IF property.isAsIs THEN 1 ELSE 0))

\* C2: for every listing scoreDeal returns min(100, P + 30[delinquent] +
\* 10[daysOnMarket > 60] + 10[lien] + 10[as-is]) with P = 40 / 25 / 15 / 0 by
\* the ratio r = price / estimatedValue, and P = 0 when price or estimatedValue
\* is missing or non-positive.
C2_ScoreMatchesTable ==
    scoreOut # <<>> =>
        \A i \in 1..2 : scoreOut[i] = TableScore(scoreIn[i])

\* C3: of two listings with the same flags and daysOnMarket and positive price
\* and estimatedValue, the one with the lower price/estimatedValue ratio has a
\* dealScore at least as high.
C3_ScoreMonotone ==
    (scoreOut # <<>> /\ Positive(scoreIn[1]) /\ Positive(scoreIn[2])
        /\ RLe(PriceRatio(scoreIn[1]), PriceRatio(scoreIn[2])))
    => scoreOut[1] >= scoreOut[2]

C3_Witness ==
    /\ scoreOut # <<>>
    /\ Positive(scoreIn[1]) /\ Positive(scoreIn[2])
    /\ RLt(PriceRatio(scoreIn[1]), PriceRatio(scoreIn[2]))
    /\ scoreIn[1].isDelinquent /\ scoreIn[1].hasTaxLien
    /\ scoreOut[1] = 90 /\ scoreOut[2] = 65

----------------------------------------------------------------------------
(* Claims about the value estimator *)

\* the external point estimate is plausible: positive, the price positive, the
\* ratio to the price within [0.4, 2.5] and, with a known positive floor area,
\* at most 2000 per unit of area
Plausible(l) ==
    /\ l.zestimate > 0 /\ l.price > 0
    /\ 10 * l.zestimate >= 4 * l.price
    /\ 10 * l.zestimate <= 25 * l.price
    /\ (l.sqft > 0 => l.zestimate <= 2000 * l.sqft)

EstPpsf == PpsfLookup(estIn.listing, estIn.marketData)
EstPriceMedian == PriceMedianLookup(estIn.listing, estIn.marketData)
\* ppsf x area, and its ratio to priceMedian
EstPpsfTimesArea == RMul(EstPpsf, RInt(estIn.listing.sqft))
EstDivergence == RDiv(EstPpsfTimesArea, EstPriceMedian)

\* no plausible external estimate, a known positive floor area, a positive
\* $/area median and a positive priceMedian
CrossValidated ==
    /\ estOut # <<>>
    /\ ~Plausible(estIn.listing)
    /\ estIn.listing.sqft > 0
    /\ RGt(EstPpsf, Zero)
    /\ RGt(EstPriceMedian, Zero)

DivergenceExtreme ==
    RGt(EstDivergence, RInt(3)) \/ RLt(EstDivergence, Rat(1, 4))
DivergenceModerate ==
    ~DivergenceExtreme
    /\ (RGt(EstDivergence, Rat(3, 2)) \/ RLt(EstDivergence, Rat(1, 2)))

\* C4: the estimator returns the external point estimate exactly whenever it
\* is plausible, and never returns it as the external-point result when it is
\* not plausible (backend and client estimator alike).
C4_PlausibleZestimateReturned ==
    estOut # <<>> =>
        \A r \in {estOut.backend, estOut.client} :
            /\ Plausible(estIn.listing)
                  => r.value = RInt(estIn.listing.zestimate) /\ r.via = "zestimate"
            /\ ~Plausible(estIn.listing) => r.via # "zestimate"

C4_Witness ==
    /\ estOut # <<>>
    /\ estIn.listing.price = 1000 /\ estIn.listing.zestimate = 2000
    /\ estIn.listing.sqft = 1
    /\ RGt(EstPpsf, Zero) /\ RGt(EstPriceMedian, Zero)
    /\ estOut.backend.value = RInt(2000) /\ estOut.client.value = RInt(2000)

\* C5: with no plausible external estimate, a known positive floor area, a
\* positive $/area median and a positive priceMedian, a divergence
\* (ppsf x area) / priceMedian above 3 or below 0.25 makes the estimator return
\* priceMedian exactly.
C5_ExtremeDivergenceReturnsPriceMedian ==
    (CrossValidated /\ DivergenceExtreme)
    => estOut.backend.value = EstPriceMedian

\* C6: in the same situation with the divergence within [0.25, 3], the
\* estimator returns round(0.7 x priceMedian + 0.3 x ppsfEstimate) when the
\* divergence is above 1.5 or below 0.5, and ppsfEstimate otherwise.
C6_ModerateDivergenceBlends ==
    (CrossValidated /\ ~DivergenceExtreme)
    => estOut.backend.value =
          IF DivergenceModerate
          THEN RInt(MathRound(RAdd(RMul(EstPriceMedian, Rat(7, 10)),
                                   RMul(EstPpsfTimesArea, Rat(3, 10)))))
          ELSE EstPpsfTimesArea

----------------------------------------------------------------------------
(* backend/services/enrichmentService.js: Tier 1 *)

MAX_ENRICH == 15

\* A variant that finds every property worth enriching.
isWorthEnrichingAll(property) == TRUE

isWorthEnriching(property) ==
    IF property.isPreForeclosure THEN TRUE
    ELSE IF property.isAsIs THEN TRUE
    ELSE IF property.price # 0 /\ Truthy(property.marketMedian)
            /\ RLt(RInt(property.price), RMul(property.marketMedian, Rat(9, 10)))
    THEN TRUE
    ELSE IF property.daysOnMarket > 45 THEN TRUE
    ELSE IF property.priceDropPercent > 10 THEN TRUE
    ELSE FALSE

\* a.price && a.marketMedian ? a.price / a.marketMedian : 1
EnrichRatio(property) ==
    IF property.price # 0 /\ Truthy(property.marketMedian)
    THEN RDiv(RInt(property.price), property.marketMedian)
    ELSE RInt(1)

\* [...properties].sort((a, b) => ratioA - ratioB), a stable sort, on the
\* indexes of the properties in the working set
RECURSIVE InsertByRatio(_, _, _)
InsertByRatio(listings, sorted, i) ==
    IF sorted = <<>> THEN <<i>>
    ELSE IF RLt(EnrichRatio(listings[i]), EnrichRatio(listings[Head(sorted)]))
    THEN <<i>> \o sorted
    ELSE <<Head(sorted)>> \o InsertByRatio(listings, Tail(sorted), i)

\* A variant that leaves the candidates in the order of the working set.
SortByRatioNone(listings, idx) == idx

RECURSIVE SortByRatio(_, _)
SortByRatio(listings, idx) ==
    IF idx = <<>> THEN <<>>
    ELSE InsertByRatio(listings,
                       SortByRatio(listings, SubSeq(idx, 1, Len(idx) - 1)),
                       idx[Len(idx)])

\* sorted.slice(0, MAX_ENRICH)
Slice(seq, n) == SubSeq(seq, 1, Min(n, Len(seq)))

\* A variant that takes the looked-up flags as they are.
MergeEnrichmentOverwrite(property, attom, datafin) ==
    LET merged == [property EXCEPT
                      !.isDelinquent = attom.isDelinquent,
                      !.isPreForeclosure = attom.isPreForeclosure,
                      !.hasTaxLien = datafin.hasTaxLien,
                      !.priceDropPercent = datafin.priceDropPercent,
                      !.marketMedian = IF attom.marketMedian # 0 /\ ~Truthy(property.marketMedian)
                                       THEN RInt(attom.marketMedian)
                                       ELSE property.marketMedian,
                      !.daysOnMarket = IF attom.daysOnMarket # 0 /\ property.daysOnMarket = 0
                                       THEN attom.daysOnMarket
                                       ELSE property.daysOnMarket]
    IN  [merged EXCEPT !.dealScore = scoreDeal(merged), !.enriched = TRUE]

\* A variant that takes the looked-up market value whenever there is one.
MergeEnrichmentTakeAttom(property, attom, datafin) ==
    LET merged == [property EXCEPT
                      !.isDelinquent = attom.isDelinquent \/ property.isDelinquent,
                      !.isPreForeclosure = attom.isPreForeclosure \/ property.isPreForeclosure,
                      !.hasTaxLien = datafin.hasTaxLien \/ property.hasTaxLien,
                      !.priceDropPercent = datafin.priceDropPercent,
                      !.marketMedian = IF attom.marketMedian # 0
                                       THEN RInt(attom.marketMedian)
                                       ELSE property.marketMedian,
                      !.daysOnMarket = IF attom.daysOnMarket # 0 /\ property.daysOnMarket = 0
                                       THEN attom.daysOnMarket
                                       ELSE property.daysOnMarket]
    IN  [merged EXCEPT !.dealScore = scoreDeal(merged), !.enriched = TRUE]

\* the body of the try block of the enrich loop for one property
MergeEnrichment(property, attom, datafin) ==
    LET merged == [property EXCEPT
                      !.isDelinquent = attom.isDelinquent \/ property.isDelinquent,
                      !.isPreForeclosure = attom.isPreForeclosure \/ property.isPreForeclosure,
                      !.hasTaxLien = datafin.hasTaxLien \/ property.hasTaxLien,
                      !.priceDropPercent = datafin.priceDropPercent,
                      !.marketMedian = IF attom.marketMedian # 0 /\ ~Truthy(property.marketMedian)
                                       THEN RInt(attom.marketMedian)
                                       ELSE property.marketMedian,
                      !.daysOnMarket = IF attom.daysOnMarket # 0 /\ property.daysOnMarket = 0
                                       THEN attom.daysOnMarket
                                       ELSE property.daysOnMarket]
    IN  [merged EXCEPT !.dealScore = scoreDeal(merged), !.enriched = TRUE]

\* the catch block of the enrich loop
EnrichFailed(property) == [property EXCEPT !.dealScore = scoreDeal(property)]

\* datafinMap.get(street) || { hasTaxLien: false, priceDropPercent: 0 }
DatafinOf(map, street) ==
    IF street \in DOMAIN map THEN map[street]
    ELSE [hasTaxLien |-> FALSE, priceDropPercent |-> 0]

----------------------------------------------------------------------------
(* Spec: one search request served by POST /search ("sync") or by          *)
(* GET /search/stream ("stream") of backend/routes/properties.js.          *)

MAX_PAGES == 3
MIN_RESULTS == 20

\* most listings one run fetches
MaxListings == 3

\* a listing as the listing source returns it (normalizeZillowListing, or a
\* mock listing, which may carry distress flags)
RawListing(street, zip, type, status, price, sqft, zestimate, dom, asIs) ==
    [street |-> street, zip |-> zip, propertyType |-> type,
     listingStatus |-> status, price |-> price, sqft |-> sqft,
     zestimate |-> zestimate, marketMedian |-> RInt(zestimate),
     daysOnMarket |-> dom, isDelinquent |-> FALSE, hasTaxLien |-> FALSE,
     isAsIs |-> asIs, isPreForeclosure |-> (status = "preForeclosure"),
     priceDropPercent |-> 0, dealScore |-> 0, enriched |-> FALSE,
     valuationSource |-> ""]

\* what the listing source has on offer (prices in thousands)
Catalog ==
    { RawListing("1 Elm", "z1", "condo", "preForeclosure", 70, 1, 100, 61, TRUE),
      RawListing("2 Oak", "z1", "condo", "forSale", 78, 1, 100, 0, FALSE),
      RawListing("3 Ash", "z1", "house", "forSale", 100, 0, 0, 50, FALSE),
      RawListing("4 Fir", "z2", "house", "forSale", 100, 2, 100, 0, FALSE) }

\* sequences of distinct catalogue listings, at most n long
RECURSIVE Pages(_, _)
Pages(pool, n) ==
    IF n = 0 \/ pool = {} THEN {<<>>}
    ELSE {<<>>} \cup UNION {{<<l>> \o rest : rest \in Pages(pool \ {l}, n - 1)} : l \in pool}

Filters(propertyType, distressType, minScore, minDiscount) ==
    [propertyType |-> propertyType, distressType |-> distressType,
     minScore |-> minScore, minDiscount |-> minDiscount]

\* the filter sets of the requests; "" and 0 stand for an absent filter
FilterSets ==
    { Filters("", "", 0, 0), Filters("condo", "", 0, 0),
      Filters("", "preForeclosure", 0, 0), Filters("", "asIs", 0, 0),
      Filters("", "delinquent", 0, 0), Filters("", "taxLien", 0, 0),
      Filters("", "delinquent", 50, 0), Filters("", "", 20, 20) }

\* latitude / longitude of a request; 0 stands for a missing (falsy) value
Coordinates == {<<40, -74>>, <<0, -74>>, <<40, 0>>}

\* A variant that enriches for every distress type.
needsEnrichmentAny(searchFilters) == searchFilters.distressType # ""

needsEnrichment(searchFilters) ==
    searchFilters.distressType = "delinquent" \/ searchFilters.distressType = "taxLien"

\* A variant that takes every request as filtered.
hasActiveFilterAlways(searchFilters) == TRUE

hasActiveFilter(searchFilters) ==
    searchFilters.propertyType # "" \/ searchFilters.distressType # ""
    \/ searchFilters.minScore # 0 \/ searchFilters.minDiscount # 0

\* the pre-filters of the fetch loop
PassesPreFilter(searchFilters, listing) ==
    /\ ~(searchFilters.propertyType # "" /\ listing.propertyType # searchFilters.propertyType)
    /\ ~(searchFilters.distressType = "preForeclosure" /\ listing.listingStatus # "preForeclosure")
    /\ ~(searchFilters.distressType = "asIs" /\ ~listing.isAsIs)

\* one message written to the response
Msg(event, phase, percent, res) ==
    [event |-> event, phase |-> phase, percent |-> percent, results |-> res]

Streamed == request.mode = "stream"

Init ==
    /\ scoreIn = <<>> /\ scoreOut = <<>> /\ estIn = <<>> /\ estOut = <<>>
    /\ NoRun
    /\ NoClient
    /\ NoTierCall
    /\ NoStore
    /\ NoStats
    /\ NoGeo /\ connected = TRUE /\ searchLoading = FALSE

\* A variant that rejects a request only when both coordinates are missing.
MissingCoordinatesBoth(latitude, longitude) == latitude = 0 /\ longitude = 0

\* !latitude || !longitude
MissingCoordinates(latitude, longitude) == latitude = 0 \/ longitude = 0

\* POST /search up to the fetch loop
PostSearch ==
    /\ pc = "idle"
    /\ \E c \in Coordinates, f \in FilterSets :
          /\ request' = [mode |-> "sync", latitude |-> c[1], longitude |-> c[2],
                         filters |-> f]
          /\ IF MissingCoordinates(c[1], c[2])
             THEN /\ sent' = <<Msg("json", "400", 0, <<>>)>>
                  /\ pc' = "done"
                  /\ UNCHANGED <<page, hasMore>>
             ELSE /\ pc' = "fetch" /\ page' = 1 /\ hasMore' = TRUE
                  /\ UNCHANGED sent
    /\ UNCHANGED <<allListings, areaMedian, batch, datafinMap, cursor, results,
                   calls, db, alerts, scoreVars, estVars, clientVars, tierVars, storeVars, statVars, geoVars, connected, searchLoading>>

\* GET /search/stream up to the fetch loop
GetSearchStream ==
    /\ pc = "idle"
    /\ \E c \in Coordinates, f \in FilterSets, parses \in BOOLEAN :
          /\ request' = [mode |-> "stream", latitude |-> c[1], longitude |-> c[2],
                         filters |-> f]
          /\ IF MissingCoordinates(c[1], c[2])
             THEN /\ sent' = <<Msg("error", "", 0, <<>>), Msg("end", "", 0, <<>>)>>
                  /\ pc' = "done"
                  /\ UNCHANGED <<page, hasMore>>
             ELSE IF ~parses
             \* JSON.parse(filtersJson) throws: the outer catch, then finally
             THEN /\ sent' = <<Msg("error", "", 0, <<>>), Msg("end", "", 0, <<>>)>>
                  /\ pc' = "done"
                  /\ UNCHANGED <<page, hasMore>>
             ELSE /\ sent' = <<Msg("progress", "fetching", 5, <<>>)>>
                  /\ pc' = "fetch" /\ page' = 1 /\ hasMore' = TRUE
    /\ UNCHANGED <<allListings, areaMedian, batch, datafinMap, cursor, results,
                   calls, db, alerts, scoreVars, estVars, clientVars, tierVars, storeVars, statVars, geoVars, connected, searchLoading>>

\* one iteration of the fetch loop: a page of the listing source, one of
\* rawPages, pre-filtered
FetchPageOf(rawPages) ==
    /\ pc = "fetch"
    /\ \E rawListings \in rawPages, morePages \in BOOLEAN :
          LET kept == SelectSeq(rawListings,
                                LAMBDA l : PassesPreFilter(request.filters, l))
              all == allListings \o kept
              stop == ~hasActiveFilter(request.filters) \/ Len(all) >= MIN_RESULTS
          IN  /\ allListings' = all
              /\ hasMore' = morePages
              /\ page' = IF stop THEN page ELSE page + 1
              /\ pc' = IF stop \/ ~(morePages /\ page + 1 <= MAX_PAGES)
                       THEN "estimate" ELSE "fetch"
    /\ calls' = [calls EXCEPT !.searchByCoordinates = @ + 1]
    /\ UNCHANGED <<request, areaMedian, batch, datafinMap, cursor, results, sent,
                   db, alerts, scoreVars, estVars, clientVars, tierVars, storeVars, statVars, geoVars, connected, searchLoading>>

\* the fetch loop over a source that offers the listings of the catalogue,
\* each once
FetchPage ==
    FetchPageOf(Pages(Catalog \ {allListings[i] : i \in 1..Len(allListings)},
                      MaxListings - Len(allListings)))

\* phase 2: market data, then estimateMarketValue for every listing
Estimated(listings) ==
    LET marketData == computeMarketData(listings)
    IN  [i \in 1..Len(listings) |->
            [listings[i] EXCEPT
                !.marketMedian = estimateMarketValue(listings[i], marketData)]]

\* allListings.filter((l) => !l.enriched && isWorthEnriching(l)), as indexes
RECURSIVE Candidates(_, _)
Candidates(listings, n) ==
    IF n = 0 THEN <<>>
    ELSE IF ~listings[n].enriched /\ isWorthEnriching(listings[n])
         THEN Append(Candidates(listings, n - 1), n)
         ELSE Candidates(listings, n - 1)

EstimatePhase ==
    /\ pc = "estimate"
    /\ allListings' = Estimated(allListings)
    /\ areaMedian' = computeMarketData(allListings).areaPriceMedian
    /\ LET candidates == IF needsEnrichment(request.filters)
                         THEN Candidates(allListings', Len(allListings'))
                         ELSE <<>>
       IN  IF Streamed
           THEN /\ sent' = Append(sent, Msg("progress", "fetched", 15, <<>>))
                /\ pc' = IF Len(candidates) > 0 THEN "enrichBatch" ELSE "filter"
           ELSE /\ sent' = sent
                /\ pc' = IF needsEnrichment(request.filters)
                         THEN "enrichBatch" ELSE "filter"
    /\ cursor' = 1
    /\ UNCHANGED <<request, page, hasMore, batch, datafinMap, results, calls, db,
                   alerts, scoreVars, estVars, clientVars, tierVars, storeVars, statVars, geoVars, connected, searchLoading>>

\* enrichBatch up to its loop: sort, cap, one batched lien lookup
EnrichBatch ==
    /\ pc = "enrichBatch"
    /\ LET sorted == SortByRatio(allListings,
                                 Candidates(allListings, Len(allListings)))
           capped == Slice(sorted, MAX_ENRICH)
           streets == {allListings[capped[i]].street : i \in 1..Len(capped)}
       IN  /\ batch' = capped
           /\ \E liens \in SUBSET streets :
                 datafinMap' = [st \in streets |->
                                   [hasTaxLien |-> st \in liens, priceDropPercent |-> 0]]
           /\ pc' = IF capped = <<>> THEN "filter" ELSE "enrich"
    /\ calls' = [calls EXCEPT !.fetchDatafinitiBatch = @ + 1]
    /\ cursor' = 1
    /\ UNCHANGED <<request, page, hasMore, allListings, areaMedian, results, sent,
                   db, alerts, scoreVars, estVars, clientVars, tierVars, storeVars, statVars, geoVars, connected, searchLoading>>

\* what fetchAttomData may return
AttomResults ==
    { [isDelinquent |-> FALSE, isPreForeclosure |-> FALSE, marketMedian |-> 0,
       daysOnMarket |-> 0],
      [isDelinquent |-> TRUE, isPreForeclosure |-> FALSE, marketMedian |-> 0,
       daysOnMarket |-> 0],
      [isDelinquent |-> TRUE, isPreForeclosure |-> TRUE, marketMedian |-> 120,
       daysOnMarket |-> 90] }

\* A variant whose enrichment share spans 100 points instead of 80.
EnrichPercentOverrun(current, total) == 15 + MathRound(Rat(current * 100, total))

\* 15 + Math.round((current / total) * 80)
EnrichPercent(current, total) == 15 + MathRound(Rat(current * 80, total))

\* one iteration of the loop of enrichBatch
EnrichStep ==
    /\ pc = "enrich"
    /\ LET i == batch[cursor]
           property == allListings[i]
       IN  \/ \E attom \in AttomResults :
                 allListings' = [allListings EXCEPT ![i] =
                     MergeEnrichment(property, attom,
                                     DatafinOf(datafinMap, property.street))]
           \/ allListings' = [allListings EXCEPT ![i] = EnrichFailed(property)]
    /\ sent' = IF Streamed
               THEN Append(sent, Msg("progress", "enriching",
                                     EnrichPercent(cursor, Len(batch)), <<>>))
               ELSE sent
    /\ calls' = [calls EXCEPT !.fetchAttomData = @ + 1]
    /\ cursor' = IF cursor = Len(batch) THEN 1 ELSE cursor + 1
    /\ pc' = IF cursor = Len(batch) THEN "filter" ELSE "enrich"
    /\ UNCHANGED <<request, page, hasMore, areaMedian, batch, datafinMap, results,
                   db, alerts, scoreVars, estVars, clientVars, tierVars, storeVars, statVars, geoVars, connected, searchLoading>>

\* ((marketMedian - price) / marketMedian) * 100
Discount(listing) ==
    RMul(RDiv(RSub(listing.marketMedian, RInt(listing.price)), listing.marketMedian),
         RInt(100))

\* the documents the filter of the upsert selects:
\* { 'address.street': ..., 'address.zip': ... }
Matching(coll, listing) ==
    {i \in DOMAIN coll : coll[i].street = listing.street /\ coll[i].zip = listing.zip}

\* A variant that inserts a document on every call.
findOneAndUpdateInsertOnly(coll, listing) ==
    Append(coll, listing @@ [alertSent |-> FALSE])

\* Property.findOneAndUpdate(filter, listing, { upsert: true, new: true,
\* setDefaultsOnInsert: true }): the first matching document takes the fields
\* of the listing and keeps its others; with no match a document is inserted,
\* alertSent at its schema default
findOneAndUpdate(coll, listing) ==
    IF Matching(coll, listing) = {}
    THEN Append(coll, listing @@ [alertSent |-> FALSE])
    ELSE LET i == CHOOSE m \in Matching(coll, listing) :
                      \A n \in Matching(coll, listing) : m <= n
         IN  [coll EXCEPT ![i] = listing @@ coll[i]]

\* the _id of the document the upsert returns: its position in the collection
SavedId(coll, listing) ==
    CHOOSE m \in Matching(coll, listing) : \A n \in Matching(coll, listing) : m <= n

\* post('findOneAndUpdate'): doc && doc.dealScore > 80 && !doc.alertSent
alertDue(doc) == doc.dealScore > 80 /\ ~doc.alertSent

\* doc.constructor.updateOne({ _id: doc._id }, { alertSent: true })
markAlertSent(coll, id) == [coll EXCEPT ![id].alertSent = TRUE]

\* A variant whose catch drops the listing.
OnInnerErrorDropped(res, listing) == res

\* A variant whose catch returns the listing without the score of this run.
OnInnerErrorUnscored(res, listing) == Append(res, [listing EXCEPT !.dealScore = 0])

\* catch (innerErr) { results.push(listing) }
OnInnerError(res, listing) == Append(res, listing)

\* one iteration of the final loop: distress filter, score, minScore and
\* minDiscount filters, upsert of a deal scoring above 50
FilterStep ==
    /\ pc = "filter" /\ cursor <= Len(allListings)
    /\ LET listing == allListings[cursor]
           searchFilters == request.filters
           scored == [listing EXCEPT !.dealScore = scoreDeal(listing)]
       IN  IF \/ searchFilters.distressType = "delinquent" /\ ~listing.isDelinquent
              \/ searchFilters.distressType = "taxLien" /\ ~listing.hasTaxLien
           THEN UNCHANGED <<allListings, results, calls, db, alerts>>
           ELSE /\ allListings' = [allListings EXCEPT ![cursor] = scored]
                /\ IF \/ searchFilters.minScore # 0 /\ scored.dealScore < searchFilters.minScore
                      \/ /\ searchFilters.minDiscount # 0 /\ scored.price # 0
                         /\ Truthy(scored.marketMedian)
                         /\ RGt(scored.marketMedian, Zero)
                         /\ RLt(Discount(scored), RInt(searchFilters.minDiscount))
                   THEN UNCHANGED <<results, calls, db, alerts>>
                   ELSE IF scored.dealScore > 50
                   THEN /\ calls' = [calls EXCEPT !.findOneAndUpdate = @ + 1]
                        /\ \/ LET saved == findOneAndUpdate(db, scored)
                                  id == SavedId(saved, scored)
                              IN  \* the post hook runs before the upsert resolves
                                  /\ db' = IF alertDue(saved[id])
                                           THEN markAlertSent(saved, id) ELSE saved
                                  /\ alerts' = IF alertDue(saved[id])
                                               THEN Append(alerts, id) ELSE alerts
                                  /\ results' = Append(results, scored)
                           \* findOneAndUpdate rejects: the inner catch
                           \/ /\ db' = db /\ alerts' = alerts
                              /\ results' = OnInnerError(results, scored)
                   ELSE /\ results' = Append(results, scored)
                        /\ UNCHANGED <<calls, db, alerts>>
    /\ cursor' = cursor + 1
    /\ UNCHANGED <<request, pc, page, hasMore, areaMedian, batch, datafinMap, sent,
                   scoreVars, estVars, clientVars, tierVars, storeVars, statVars, geoVars, connected, searchLoading>>

\* A variant that leaves the results in the order of the working set.
SortByScoreNone(res) == res

\* results.sort((a, b) => (b.dealScore || 0) - (a.dealScore || 0)), stable
SortByScore(res) ==
    LET RECURSIVE Insert(_, _)
        Insert(sorted, x) ==
            IF sorted = <<>> THEN <<x>>
            ELSE IF x.dealScore > Head(sorted).dealScore THEN <<x>> \o sorted
            ELSE <<Head(sorted)>> \o Insert(Tail(sorted), x)
        RECURSIVE Sort(_)
        Sort(seq) ==
            IF seq = <<>> THEN <<>>
            ELSE Insert(Sort(SubSeq(seq, 1, Len(seq) - 1)), seq[Len(seq)])
    IN  Sort(res)

\* after the final loop: sort, then the response
Respond ==
    /\ pc = "filter" /\ cursor > Len(allListings)
    /\ results' = SortByScore(results)
    /\ sent' = IF Streamed
               THEN sent \o <<Msg("progress", "done", 100, <<>>),
                              Msg("results", "", 0, results'),
                              Msg("end", "", 0, <<>>)>>
               ELSE <<Msg("json", "200", 0, results')>>
    /\ pc' = "done"
    /\ UNCHANGED <<request, page, hasMore, allListings, areaMedian, batch,
                   datafinMap, cursor, calls, db, alerts, scoreVars, estVars, clientVars, tierVars, storeVars, statVars, geoVars, connected, searchLoading>>

Next ==
    \/ PostSearch
    \/ GetSearchStream
    \/ FetchPage
    \/ EstimatePhase
    \/ EnrichBatch
    \/ EnrichStep
    \/ FilterStep
    \/ Respond

Spec == Init /\ [][Next]_vars

----------------------------------------------------------------------------
(* SpecMarket: the estimation phase of a search run over a working set of  *)
(* listings with small prices and floor areas.                             *)

MaxMarketPrice == 4
MaxMarketSqft == 3

MarketListing(street, zip, price, sqft, zestimate) ==
    RawListing(street, zip, "condo", "forSale", price, sqft, zestimate, 0, FALSE)

MarketListingsAt(street) ==
    { MarketListing(street, zip, price, sqft, zestimate) :
        zip \in {"z1", "z2"}, price \in {0, 1, MaxMarketPrice},
        sqft \in {0, 1, MaxMarketSqft}, zestimate \in {0, MaxMarketPrice} }

\* the handler after its fetch loop, with one to three listings fetched
MarketInit ==
    /\ scoreIn = <<>> /\ scoreOut = <<>> /\ estIn = <<>> /\ estOut = <<>>
    /\ request = [mode |-> "sync", latitude |-> 40, longitude |-> -74,
                  filters |-> Filters("", "", 0, 0)]
    /\ pc = "estimate" /\ page = 1 /\ hasMore = FALSE
    /\ \E a \in MarketListingsAt("1 Elm"),
          b \in MarketListingsAt("2 Oak") \cup {<<>>},
          c \in MarketListingsAt("3 Ash") \cup {<<>>} :
          allListings = SelectSeq(<<a, b, c>>, LAMBDA l : l # <<>>)
    /\ areaMedian = Zero /\ batch = <<>> /\ datafinMap = <<>> /\ cursor = 0
    /\ results = <<>> /\ sent = <<>>
    /\ calls = [NoCalls EXCEPT !.searchByCoordinates = 1]
    /\ db = <<>> /\ alerts = <<>>
    /\ NoClient
    /\ NoTierCall
    /\ NoStore
    /\ NoStats
    /\ NoGeo /\ connected = TRUE /\ searchLoading = FALSE

SpecMarket == MarketInit /\ [][EstimatePhase]_vars

----------------------------------------------------------------------------
(* backend/services/enrichmentService.js: enrichDeal, Tier 2 and Tier 3 *)

MAX_ZILLOW_REFINE == 20
MAX_RENTCAST == 2

\* enrichDeal for one property, given what the three lookups returned
\* (zillow is the zestimate of fetchZillowData, 0 when there is none)
enrichDeal(property, attom, datafiniti, zillow) ==
    LET needsZillow == property.zestimate = 0 /\ ~Truthy(property.marketMedian)
        valued ==
            IF needsZillow /\ zillow # 0
            THEN [property EXCEPT !.marketMedian = RInt(zillow), !.zestimate = zillow]
            ELSE IF attom.marketMedian # 0 /\ ~Truthy(property.marketMedian)
            THEN [property EXCEPT !.marketMedian = RInt(attom.marketMedian)]
            ELSE property
        merged ==
            [valued EXCEPT
                !.daysOnMarket = IF attom.daysOnMarket # 0 /\ property.daysOnMarket = 0
                                 THEN attom.daysOnMarket ELSE property.daysOnMarket,
                !.isDelinquent = attom.isDelinquent \/ property.isDelinquent,
                !.isPreForeclosure = attom.isPreForeclosure \/ property.isPreForeclosure,
                !.hasTaxLien = datafiniti.hasTaxLien \/ property.hasTaxLien,
                !.priceDropPercent = datafiniti.priceDropPercent]
    IN  [merged EXCEPT !.dealScore = scoreDeal(merged), !.enriched = TRUE]

\* indexes of the listings that satisfy keep, sorted by dealScore descending
\* (a stable sort), capped at n
TopByScore(listings, keep(_), n) ==
    LET RECURSIVE Insert(_, _)
        Insert(sorted, i) ==
            IF sorted = <<>> THEN <<i>>
            ELSE IF listings[i].dealScore > listings[Head(sorted)].dealScore
            THEN <<i>> \o sorted
            ELSE <<Head(sorted)>> \o Insert(Tail(sorted), i)
        RECURSIVE Sort(_)
        Sort(k) ==
            IF k = 0 THEN <<>>
            ELSE IF keep(listings[k]) THEN Insert(Sort(k - 1), k)
            ELSE Sort(k - 1)
    IN  Slice(Sort(Len(listings)), n)

\* Tier 2: zillow?.zestimate && zillow.zestimate > 0, and the sanity check
\* ratio >= 0.4 && ratio <= 2.5 of zestimate / price
RefineAccepted(property, zillow) ==
    /\ zillow # 0 /\ zillow > 0
    \* zestimate / price is Infinity or NaN for a price of 0
    /\ property.price # 0
    /\ RGe(Rat(zillow, property.price), ZESTIMATE_MIN_RATIO)
    /\ RLe(Rat(zillow, property.price), ZESTIMATE_MAX_RATIO)

\* Tier 2, the loop body for one property given the zestimate fetched
\* (0: none, or the lookup failed)
Refined(property, zillow) ==
    IF RefineAccepted(property, zillow)
    THEN LET p == [property EXCEPT !.zestimate = zillow,
                                   !.marketMedian = RInt(zillow),
                                   !.valuationSource = "zillow_per_property"]
         IN  [p EXCEPT !.dealScore = scoreDeal(p)]
    ELSE property

\* refineBatchValuations, given the zestimate fetched for each listing
refineBatchValuations(properties, zillowOf) ==
    LET refineBatch == TopByScore(properties,
                             LAMBDA p : p.zestimate = 0 \/ p.valuationSource = "ppsf_median",
                             MAX_ZILLOW_REFINE)
        chosen == {refineBatch[k] : k \in 1..Len(refineBatch)}
    IN  [i \in 1..Len(properties) |->
            IF i \in chosen THEN Refined(properties[i], zillowOf[i])
            ELSE properties[i]]

\* Tier 3, the loop body for one property given the AVM value (0: none)
Validated(property, avm) ==
    IF avm = 0 THEN property
    ELSE LET p == IF property.zestimate # 0 /\ property.zestimate > 0
                  THEN [property EXCEPT
                          !.marketMedian =
                              RInt(MathRound(RAdd(RMul(RInt(property.zestimate), Rat(6, 10)),
                                                  RMul(RInt(avm), Rat(4, 10))))),
                          !.valuationSource = "zillow+rentcast"]
                  ELSE [property EXCEPT !.marketMedian = RInt(avm),
                                        !.valuationSource = "rentcast"]
         IN  [p EXCEPT !.dealScore = scoreDeal(p)]

\* validateTopDeals, given the AVM value fetched for each listing
validateTopDeals(properties, avmOf) ==
    LET top == TopByScore(properties, LAMBDA p : p.dealScore >= 70, MAX_RENTCAST)
        chosen == {top[k] : k \in 1..Len(top)}
    IN  [i \in 1..Len(properties) |->
            IF i \in chosen THEN Validated(properties[i], avmOf[i])
            ELSE properties[i]]

\* enrichBatch run to completion, given what the lien lookup returned for each
\* listing, what fetchAttomData returned and for which listings it failed
enrichBatch(properties, liens, attomOf, failed) ==
    LET candidates == Candidates(properties, Len(properties))
        capped == Slice(SortByRatio(properties, candidates), MAX_ENRICH)
        chosen == {capped[k] : k \in 1..Len(capped)}
    IN  [i \in 1..Len(properties) |->
            IF i \notin chosen THEN properties[i]
            ELSE IF i \in failed THEN EnrichFailed(properties[i])
            ELSE MergeEnrichment(properties[i], attomOf[i],
                                 [hasTaxLien |-> i \in liens, priceDropPercent |-> 0])]

----------------------------------------------------------------------------
(* SpecTiers: the pipeline operations applied, in any order, to a working  *)
(* set of two listings.                                                    *)

ZillowEstimates == {0, 95, 300}
RentCastValues == {0, 80}

TiersInit ==
    /\ scoreIn = <<>> /\ scoreOut = <<>> /\ estIn = <<>> /\ estOut = <<>>
    /\ request = <<>> /\ pc = "tiers" /\ page = 0 /\ hasMore = FALSE
    /\ allListings \in {ls \in Pages(Catalog, 2) : Len(ls) = 2}
    /\ areaMedian = Zero /\ batch = <<>> /\ datafinMap = <<>> /\ cursor = 0
    /\ results = <<>> /\ sent = <<>> /\ calls = NoCalls /\ db = <<>> /\ alerts = <<>>
    /\ NoClient
    /\ NoTierCall
    /\ NoStore
    /\ NoStats
    /\ NoGeo /\ connected = TRUE /\ searchLoading = FALSE

TierVars == <<request, pc, page, hasMore, areaMedian, batch, datafinMap, cursor,
              results, sent, calls, db, alerts, scoreVars, estVars, clientVars, tierVars, storeVars, statVars, geoVars, connected, searchLoading>>

Working == 1..Len(allListings)

TierEstimate ==
    /\ pc = "tiers"
    /\ allListings' = Estimated(allListings)
    /\ UNCHANGED TierVars

TierEnrichBatch ==
    /\ pc = "tiers"
    /\ \E liens \in SUBSET Working, failed \in SUBSET Working,
          attomOf \in [Working -> AttomResults] :
          allListings' = enrichBatch(allListings, liens, attomOf, failed)
    /\ UNCHANGED TierVars

TierEnrichDeal ==
    /\ pc = "tiers"
    /\ \E i \in Working, attom \in AttomResults, lien \in BOOLEAN,
          zillow \in ZillowEstimates :
          allListings' = [allListings EXCEPT ![i] =
              enrichDeal(allListings[i], attom,
                         [hasTaxLien |-> lien, priceDropPercent |-> 0], zillow)]
    /\ UNCHANGED TierVars

TierRefine ==
    /\ pc = "tiers"
    /\ \E zillowOf \in [Working -> ZillowEstimates] :
          allListings' = refineBatchValuations(allListings, zillowOf)
    /\ UNCHANGED TierVars

TierValidate ==
    /\ pc = "tiers"
    /\ \E avmOf \in [Working -> RentCastValues] :
          allListings' = validateTopDeals(allListings, avmOf)
    /\ UNCHANGED TierVars

\* listing.dealScore = scoreDeal(listing) of the search handlers
TierScore ==
    /\ pc = "tiers"
    /\ \E i \in Working :
          allListings' = [allListings EXCEPT ![i].dealScore = scoreDeal(allListings[i])]
    /\ UNCHANGED TierVars

TiersNext ==
    \/ TierEstimate
    \/ TierEnrichBatch
    \/ TierEnrichDeal
    \/ TierRefine
    \/ TierValidate
    \/ TierScore

SpecTiers == TiersInit /\ [][TiersNext]_vars

\* C1: after any sequence of pipeline operations on a listing (value
\* estimation, enrichBatch / enrichDeal, refineBatchValuations,
\* validateTopDeals, final scoring) its dealScore is an integer in [0, 100].
C1_DealScoreInRange ==
    pc = "tiers" =>
        \A i \in 1..Len(allListings) : allListings[i].dealScore \in 0..100

C1_Witness ==
    /\ pc = "tiers"
    /\ \E i \in 1..Len(allListings) :
          /\ allListings[i].dealScore = 100
          /\ allListings[i].enriched
          /\ allListings[i].valuationSource = "zillow+rentcast"

----------------------------------------------------------------------------
(* SpecTierCall: one call of a tier operation on a working set of two      *)
(* listings, with the outcome of every external lookup of the call.  A     *)
(* lookup is "ok" (the service answered), "down" (the request to the       *)
(* service failed inside the fetcher) or "threw" (an exception reached the *)
(* try block of the tier).  Mock values are drawn by the fetchers from a    *)
(* fixed range whatever the listing is; the range is scaled to the prices  *)
(* of the listings here, so that a mock value can pass for a real one.     *)

\* getMockAttomData: one record per band of rand, marketMedian in
\* 180000..300000 (scaled by 1000), daysOnMarket in 0..180
getMockAttomData ==
    { [isDelinquent |-> TRUE, isPreForeclosure |-> TRUE, marketMedian |-> 180,
       daysOnMarket |-> 90],
      [isDelinquent |-> TRUE, isPreForeclosure |-> FALSE, marketMedian |-> 300,
       daysOnMarket |-> 0],
      [isDelinquent |-> FALSE, isPreForeclosure |-> FALSE, marketMedian |-> 180,
       daysOnMarket |-> 90] }

\* the outcomes of one call of fetchAttomData with what it then returns; a
\* call that throws returns nothing
AttomCalls ==
    {[status |-> "ok", data |-> r] : r \in AttomResults}
        \cup {[status |-> "down", data |-> r] : r \in getMockAttomData}
        \cup {[status |-> "threw",
                data |-> [isDelinquent |-> FALSE, isPreForeclosure |-> FALSE,
                          marketMedian |-> 0, daysOnMarket |-> 0]]}

\* getMockData of zillowService: zestimate in 180000..330000 (scaled by 1000)
getMockData == {180, 330}

\* the outcomes of one call of fetchZillowData with the zestimate it then
\* returns (0: none): the API result, or mock data once every API has failed
ZillowCalls ==
    {[status |-> "ok", data |-> z] : z \in {0, 95, 300, 2400}}
        \cup {[status |-> "down", data |-> z] : z \in getMockData}
        \cup {[status |-> "threw", data |-> 0]}

\* getMockAVM of rentcastService: value in 200000..500000 (scaled by 1000)
getMockAVM == {200, 500}

\* the outcomes of one call of fetchRentCastAVM with the value it then returns
\* (0: null): a failed request returns null, a missing key mock data
RentCastCalls ==
    {[status |-> "ok", data |-> v] : v \in RentCastValues}
        \cup {[status |-> "down", data |-> 0], [status |-> "threw", data |-> 0]}
        \cup {[status |-> "nokey", data |-> v] : v \in getMockAVM}

\* listings of the listing source that the tiers are called with
TierListings ==
    Catalog \cup {RawListing("5 Yew", "z2", "house", "forSale", 1000, 1, 0, 50, FALSE),
                  RawListing("6 Bay", "z1", "condo", "preForeclosure", 50, 1, 300, 61, TRUE)}

\* listing.dealScore = scoreDeal(listing) for every listing
Scored(listings) ==
    [i \in 1..Len(listings) |->
        [listings[i] EXCEPT !.dealScore = scoreDeal(listings[i])]]

\* working sets of two listings: as fetched, after estimation and scoring,
\* after an earlier Tier 2 run that found a zestimate of 95, and after an
\* earlier Tier 1 run that found a lien, a delinquency and a pre-foreclosure
TierWorkingSets ==
    LET fetched == {ls \in Pages(TierListings, 2) : Len(ls) = 2}
        scored == {Scored(Estimated(ls)) : ls \in fetched}
        refined == {refineBatchValuations(ls, [i \in 1..2 |-> 95]) : ls \in scored}
        distressed ==
            {enrichBatch(ls, {1, 2},
                         [i \in 1..2 |->
                             [isDelinquent |-> TRUE, isPreForeclosure |-> TRUE,
                              marketMedian |-> 120, daysOnMarket |-> 90]],
                         {}) : ls \in scored}
    IN  fetched \cup scored \cup refined \cup distressed

\* working sets of three listings for Tier 3, whose budget is two: after
\* estimation, scoring and a Tier 1 run that found a lien, a delinquency and a
\* pre-foreclosure, and after a Tier 2 run that then found a zestimate of 95
TierTriples ==
    LET scored == {Scored(Estimated(ls)) : ls \in {t \in Pages(TierListings, 3) : Len(t) = 3}}
        distressed ==
            {enrichBatch(ls, {1, 2, 3},
                         [i \in 1..3 |->
                             [isDelinquent |-> TRUE, isPreForeclosure |-> TRUE,
                              marketMedian |-> 120, daysOnMarket |-> 90]],
                         {}) : ls \in scored}
        refined == {refineBatchValuations(ls, [i \in 1..3 |-> 95]) : ls \in distressed}
    IN  distressed \cup refined

TierCallInit ==
    /\ scoreIn = <<>> /\ scoreOut = <<>> /\ estIn = <<>> /\ estOut = <<>>
    /\ NoRun
    /\ NoClient
    /\ NoStore
    /\ NoStats
    /\ NoGeo /\ connected = TRUE /\ searchLoading = FALSE
    /\ \/ \E properties \in TierTriples, avm \in [1..3 -> RentCastCalls] :
             tierIn = [op |-> "validateTopDeals", properties |-> properties,
                       avm |-> avm]
       \/ \E properties \in TierWorkingSets :
          \/ \E liens \in SUBSET (1..2), attom \in [1..2 -> AttomCalls] :
                tierIn = [op |-> "enrichBatch", properties |-> properties,
                          liens |-> liens, attom |-> attom]
          \/ \E lien \in BOOLEAN, attom \in {c \in AttomCalls : c.status # "threw"},
                zillow \in {c \in ZillowCalls : c.status # "threw"} :
                tierIn = [op |-> "enrichDeal", properties |-> properties,
                          lien |-> lien, attom |-> attom, zillow |-> zillow]
          \/ \E zillow \in [1..2 -> ZillowCalls] :
                tierIn = [op |-> "refineBatchValuations", properties |-> properties,
                          zillow |-> zillow]
    /\ tierOut = <<>>

TierCallFrame == <<tierIn, scoreVars, estVars, runVars, clientVars, storeVars, statVars, geoVars, connected, searchLoading>>

\* enrichBatch(properties)
EnrichBatchCall ==
    /\ tierIn # <<>> /\ tierOut = <<>>
    /\ tierIn.op = "enrichBatch"
    /\ tierOut' = enrichBatch(tierIn.properties, tierIn.liens,
                              [i \in 1..2 |-> tierIn.attom[i].data],
                              {i \in 1..2 : tierIn.attom[i].status = "threw"})
    /\ UNCHANGED TierCallFrame

\* enrichDeal(property) for the first listing
EnrichDealCall ==
    /\ tierIn # <<>> /\ tierOut = <<>>
    /\ tierIn.op = "enrichDeal"
    /\ tierOut' = [tierIn.properties EXCEPT ![1] =
                      enrichDeal(tierIn.properties[1], tierIn.attom.data,
                                 [hasTaxLien |-> tierIn.lien, priceDropPercent |-> 0],
                                 tierIn.zillow.data)]
    /\ UNCHANGED TierCallFrame

\* refineBatchValuations(properties)
RefineCall ==
    /\ tierIn # <<>> /\ tierOut = <<>>
    /\ tierIn.op = "refineBatchValuations"
    /\ tierOut' = refineBatchValuations(tierIn.properties,
                                        [i \in 1..2 |-> tierIn.zillow[i].data])
    /\ UNCHANGED TierCallFrame

\* validateTopDeals(properties)
ValidateCall ==
    /\ tierIn # <<>> /\ tierOut = <<>>
    /\ tierIn.op = "validateTopDeals"
    /\ tierOut' = validateTopDeals(tierIn.properties,
                                   [i \in 1..3 |-> tierIn.avm[i].data])
    /\ UNCHANGED TierCallFrame

TierCallNext ==
    \/ EnrichBatchCall
    \/ EnrichDealCall
    \/ RefineCall
    \/ ValidateCall

SpecTierCall == TierCallInit /\ [][TierCallNext]_vars

----------------------------------------------------------------------------
(* SpecSave: a search without filters from the end of its fetch loop on,   *)
(* with three of the listings the tiers are called with.                   *)

SaveInit ==
    /\ scoreIn = <<>> /\ scoreOut = <<>> /\ estIn = <<>> /\ estOut = <<>>
    /\ \E mode \in {"sync", "stream"} :
          /\ request = [mode |-> mode, latitude |-> 40, longitude |-> -74,
                        filters |-> Filters("", "", 0, 0)]
          /\ sent = IF mode = "stream"
                    THEN <<Msg("progress", "fetching", 5, <<>>)>>
                    ELSE <<>>
    /\ pc = "estimate" /\ page = 1 /\ hasMore = FALSE
    /\ allListings \in {ls \in Pages(TierListings, 3) : Len(ls) = 3}
    /\ areaMedian = Zero /\ batch = <<>> /\ datafinMap = <<>> /\ cursor = 0
    /\ results = <<>>
    /\ calls = [NoCalls EXCEPT !.searchByCoordinates = 1]
    /\ db = <<>> /\ alerts = <<>>
    /\ NoClient
    /\ NoTierCall
    /\ NoStore
    /\ NoStats
    /\ NoGeo /\ connected = TRUE /\ searchLoading = FALSE

SaveNext ==
    \/ EstimatePhase
    \/ FilterStep
    \/ Respond

SpecSave == SaveInit /\ [][SaveNext]_vars

----------------------------------------------------------------------------
(* Claims about a search run *)

AfterEstimation == pc \in {"enrichBatch", "enrich", "filter", "done"}

\* C7: after the estimation phase of a search run every listing of the working
\* set with a positive price has a positive estimatedValue.
C7_PositivePriceHasEstimate ==
    AfterEstimation =>
        \A i \in 1..Len(allListings) :
            allListings[i].price > 0 => RGt(allListings[i].marketMedian, Zero)

DistressLookupRequested ==
    request.filters.distressType \in {"delinquent", "taxLien"}

\* C8: a search run, synchronous or streamed, whose filter set has no distress
\* type of delinquent or lien issues no batched lien lookup and no per-listing
\* delinquency lookup, and emits no progress event of phase 'enriching'.
C8_NoTier1WithoutDistressFilter ==
    (request # <<>> /\ ~DistressLookupRequested)
    => /\ calls.fetchDatafinitiBatch = 0
       /\ calls.fetchAttomData = 0
       /\ \A k \in 1..Len(sent) : sent[k].phase # "enriching"

C8_Witness ==
    /\ pc = "done" /\ Streamed
    /\ request.filters.distressType = "preForeclosure"
    /\ Len(results) > 0
    /\ \E i \in 1..Len(allListings) : isWorthEnriching(allListings[i])
    /\ \E k \in 1..Len(sent) : sent[k].phase = "done"

\* C9: the result list a search run returns is sorted by dealScore descending,
\* results that were persisted and results whose upsert failed included.
C9_ResultsSortedByScore ==
    \A k \in 1..Len(sent) :
        sent[k].event \in {"results", "json"} =>
            \A i, j \in 1..Len(sent[k].results) :
                i < j => sent[k].results[i].dealScore >= sent[k].results[j].dealScore

C9_Witness ==
    /\ pc = "done" /\ Len(results) = 3
    /\ \E k \in 1..Len(sent) : sent[k].event = "results" /\ sent[k].results = results
    /\ allListings[1].dealScore < allListings[2].dealScore
    /\ db # <<>>
    /\ calls.findOneAndUpdate > Cardinality(DOMAIN db)

----------------------------------------------------------------------------
(* SpecClient: the search cache of the client (App.jsx, runSearch).        *)
(* Coordinates are integers in units of 0.00001 degree; time is in ms.     *)

CACHE_TTL == 5 * 60 * 1000

\* most requests the client issues
MaxRequests == 3

\* the instants at which the client is observed
Instants == {0, CACHE_TTL - 1, CACHE_TTL, CACHE_TTL + 1}

\* x.toFixed(4): x rounded to 4 decimals, here in units of 0.0001 degree
ToFixed4(x) == IF x >= 0 THEN (x + 5) \div 10 ELSE -((-x + 5) \div 10)

\* JSON.stringify of a filter set: its values in the order of its keys
FilterKey(currentFilters) ==
    <<currentFilters.minDiscount, currentFilters.distressType,
      currentFilters.minScore, currentFilters.propertyType>>

\* searchBounds ? JSON.stringify(searchBounds) : 'none'
BoundsKey(searchBounds) == IF searchBounds = <<>> THEN <<"none">> ELSE searchBounds

\* `${cacheKey}|${filterKey}|${boundsKey}`
fullCacheKey(lat, lng, currentFilters, searchBounds) ==
    <<ToFixed4(lat), ToFixed4(lng), FilterKey(currentFilters), BoundsKey(searchBounds)>>

\* A variant that still accepts an entry whose age equals the TTL.
CacheFreshInclusive(cached, t) == t - cached.timestamp <= CACHE_TTL

\* Date.now() - cached.timestamp < CACHE_TTL
CacheFresh(cached, t) == t - cached.timestamp < CACHE_TTL

\* what the geocoder may resolve a location to: lat, lng, bounding box
Locations ==
    { [lat |-> 4071280, lng |-> -7400600, bounds |-> <<4070000, -7402000, 4072000, -7400000>>],
      [lat |-> 4071284, lng |-> -7400600, bounds |-> <<4070000, -7402000, 4072000, -7400000>>],
      [lat |-> 4071290, lng |-> -7400600, bounds |-> <<4070000, -7402000, 4073000, -7400000>>] }

ClientFilterSets ==
    { DefaultFilters, [DefaultFilters EXCEPT !.distressType = "delinquent"] }

\* result lists the pipeline may stream back (listings by street)
ResultLists == { <<>>, <<"1 Elm">>, <<"2 Oak", "1 Elm">> }

ClientInit ==
    /\ scoreIn = <<>> /\ scoreOut = <<>> /\ estIn = <<>> /\ estOut = <<>>
    /\ NoRun
    /\ NoClient
    /\ NoTierCall
    /\ NoStore
    /\ NoStats
    /\ NoGeo /\ connected = TRUE /\ searchLoading = FALSE

\* handleLocationSearch with a resolved location
HandleLocationSearch ==
    /\ \E geo \in Locations :
          /\ searchCoords' = [lat |-> geo.lat, lng |-> geo.lng]
          /\ areaBounds' = geo.bounds
    /\ drawMode' = FALSE
    /\ drawnBounds' = <<>>
    /\ searchCache' = <<>>
    /\ searchResults' = <<"null">>
    /\ UNCHANGED <<filters, now, pipelineRunning, stream, requests,
                   drawSearchLoading, scoreVars, estVars, runVars, tierVars, storeVars, statVars, geoVars, connected, searchLoading>>

\* setFilters of the sidebar
SetFilters ==
    /\ \E f \in ClientFilterSets : filters' = f
    /\ UNCHANGED <<searchCoords, areaBounds, searchCache, now, searchResults,
                   pipelineRunning, stream, requests, drawVars,
                   scoreVars, estVars, runVars, tierVars, storeVars, statVars, geoVars, connected, searchLoading>>

\* "Find Deals" (disabled while a search runs): handleTriggerPipeline, and
\* runSearch up to its await
HandleTriggerPipeline ==
    /\ ~pipelineRunning
    /\ searchCoords # <<>>
    /\ requests < MaxRequests
    /\ LET key == fullCacheKey(searchCoords.lat, searchCoords.lng, filters, areaBounds)
       IN  IF key \in DOMAIN searchCache /\ CacheFresh(searchCache[key], now)
           THEN /\ searchResults' = searchCache[key].results
                /\ UNCHANGED <<pipelineRunning, stream, requests>>
           ELSE /\ pipelineRunning' = TRUE
                /\ stream' = key
                /\ requests' = requests + 1
                /\ UNCHANGED searchResults
    /\ UNCHANGED <<searchCoords, areaBounds, filters, searchCache, now,
                   drawVars, scoreVars, estVars, runVars, tierVars, storeVars, statVars, geoVars, connected, searchLoading>>

\* the 'results' event of the open stream, and the rest of runSearch
StreamResults ==
    /\ stream # <<>>
    /\ \E res \in ResultLists :
          /\ searchCache' = (stream :> [results |-> res, timestamp |-> now]) @@ searchCache
          /\ searchResults' = res
    /\ stream' = <<>>
    /\ pipelineRunning' = FALSE
    /\ UNCHANGED <<searchCoords, areaBounds, filters, now, requests,
                   drawVars, scoreVars, estVars, runVars, tierVars, storeVars, statVars, geoVars, connected, searchLoading>>

\* an 'error' event or a connection error, and the rest of runSearch
StreamError ==
    /\ stream # <<>>
    /\ stream' = <<>>
    /\ pipelineRunning' = FALSE
    /\ UNCHANGED <<searchCoords, areaBounds, filters, searchCache, now,
                   searchResults, requests, drawVars, scoreVars, estVars, runVars, tierVars, storeVars, statVars, geoVars, connected, searchLoading>>

\* time passes
Tick ==
    /\ \E t \in Instants :
          /\ t > now
          /\ now' = t
    /\ UNCHANGED <<searchCoords, areaBounds, filters, searchCache, searchResults,
                   pipelineRunning, stream, requests, drawVars,
                   scoreVars, estVars, runVars, tierVars, storeVars, statVars, geoVars, connected, searchLoading>>

\* the rectangles the user may draw: south, west, north, east
DrawnRectangles == { <<4070500, -7401500, 4071500, -7400500>> }

\* "Clear search": handleClearSearch
HandleClearSearch ==
    /\ searchResults' = <<"null">>
    /\ searchCoords' = <<>>
    /\ areaBounds' = <<>>
    /\ drawMode' = FALSE
    /\ drawnBounds' = <<>>
    /\ UNCHANGED <<filters, searchCache, now, pipelineRunning, stream, requests,
                   drawSearchLoading, scoreVars, estVars, runVars, tierVars, storeVars, statVars, geoVars, connected, searchLoading>>

\* the draw button: handleToggleDrawMode
HandleToggleDrawMode ==
    /\ drawMode' = ~drawMode
    /\ IF ~drawMode
       THEN /\ searchResults' = <<"null">>
            /\ searchCoords' = <<>>
       ELSE UNCHANGED <<searchResults, searchCoords>>
    /\ UNCHANGED <<areaBounds, filters, searchCache, now, pipelineRunning, stream,
                   requests, drawnBounds, drawSearchLoading,
                   scoreVars, estVars, runVars, tierVars, storeVars, statVars, geoVars, connected, searchLoading>>

\* "Clear" of a drawn rectangle: handleClearDraw
HandleClearDraw ==
    /\ drawnBounds # <<>>
    /\ drawMode' = FALSE
    /\ drawnBounds' = <<>>
    /\ searchResults' = <<"null">>
    /\ UNCHANGED <<searchCoords, areaBounds, filters, searchCache, now,
                   pipelineRunning, stream, requests, drawSearchLoading,
                   scoreVars, estVars, runVars, tierVars, storeVars, statVars, geoVars, connected, searchLoading>>

\* a rectangle drawn on the map: handleDrawComplete
HandleDrawComplete ==
    /\ drawMode
    /\ \E bounds \in DrawnRectangles : drawnBounds' = bounds
    /\ drawMode' = FALSE
    /\ searchResults' = <<"null">>
    /\ searchCoords' = <<>>
    /\ UNCHANGED <<areaBounds, filters, searchCache, now, pipelineRunning, stream,
                   requests, drawSearchLoading, scoreVars, estVars, runVars, tierVars, storeVars, statVars, geoVars, connected, searchLoading>>

\* "Search this area" (disabled while such a search runs):
\* handleSearchDrawnArea up to its await
HandleSearchDrawnArea ==
    /\ drawnBounds # <<>>
    /\ ~drawSearchLoading
    /\ requests < MaxRequests
    /\ drawSearchLoading' = TRUE
    /\ requests' = requests + 1
    /\ UNCHANGED <<searchCoords, areaBounds, filters, searchCache, now,
                   searchResults, pipelineRunning, stream, drawMode, drawnBounds,
                   scoreVars, estVars, runVars, tierVars, storeVars, statVars, geoVars, connected, searchLoading>>

\* the response to the search of the drawn area, and the rest of
\* handleSearchDrawnArea
DrawnAreaResults ==
    /\ drawSearchLoading
    /\ \E res \in ResultLists : searchResults' = res
    /\ drawSearchLoading' = FALSE
    /\ UNCHANGED <<searchCoords, areaBounds, filters, searchCache, now,
                   pipelineRunning, stream, requests, drawMode, drawnBounds,
                   scoreVars, estVars, runVars, tierVars, storeVars, statVars, geoVars, connected, searchLoading>>

\* the search of the drawn area fails: the catch of handleSearchDrawnArea
DrawnAreaError ==
    /\ drawSearchLoading
    /\ drawSearchLoading' = FALSE
    /\ UNCHANGED <<searchCoords, areaBounds, filters, searchCache, now,
                   searchResults, pipelineRunning, stream, requests, drawMode,
                   drawnBounds, scoreVars, estVars, runVars, tierVars, storeVars, statVars, geoVars, connected, searchLoading>>

ClientNext ==
    \/ HandleLocationSearch
    \/ SetFilters
    \/ HandleTriggerPipeline
    \/ StreamResults
    \/ StreamError
    \/ HandleClearSearch
    \/ HandleToggleDrawMode
    \/ HandleClearDraw
    \/ HandleDrawComplete
    \/ HandleSearchDrawnArea
    \/ DrawnAreaResults
    \/ DrawnAreaError
    \/ Tick

SpecClient == ClientInit /\ [][ClientNext]_vars

\* the key of the search that "Find Deals" requests now
RequestedKey ==
    fullCacheKey(searchCoords.lat, searchCoords.lng, filters, areaBounds)

\* an entry for the requested key exists and is younger than 5 minutes
EntryWithinTTL ==
    /\ RequestedKey \in DOMAIN searchCache
    /\ now - searchCache[RequestedKey].timestamp < 300000

\* C10: a search requested while the cache holds an entry for its key
\* (coordinates rounded to 4 decimals, filters, bounds) younger than the
\* 5-minute TTL issues no request to the pipeline and shows exactly the cached
\* results; with an entry of age at least the TTL, or none, a full run starts.
\* (The searches meant are those of runSearch; a search of a drawn area,
\* handleSearchDrawnArea, reads and writes no cache entry.)
C10_CacheHitWithinTTL ==
    [][HandleTriggerPipeline =>
          IF EntryWithinTTL
          THEN /\ requests' = requests /\ stream' = <<>> /\ ~pipelineRunning'
               /\ searchResults' = searchCache[RequestedKey].results
          ELSE /\ requests' = requests + 1 /\ stream' = RequestedKey
               /\ pipelineRunning']_vars

\* the results shown are those of the entry of the current key although a
\* later run, for another key, showed other results: a hit replayed them
C10_Witness ==
    /\ ~pipelineRunning /\ searchCoords # <<>>
    /\ EntryWithinTTL
    /\ searchCache[RequestedKey].timestamp < now
    /\ searchResults = searchCache[RequestedKey].results
    /\ \E other \in DOMAIN searchCache :
          /\ searchCache[other].timestamp > searchCache[RequestedKey].timestamp
          /\ searchCache[other].results # searchResults

\* a step that writes the entry of the run that completes, under the key the
\* run was started with, and keeps every other entry
CacheWriteOfRun ==
    /\ stream # <<>>
    /\ \E res \in ResultLists :
          searchCache' = (stream :> [results |-> res, timestamp |-> now]) @@ searchCache

\* every entry younger than the TTL is still there, unchanged, after the step,
\* unless the step is the write of the completing run under that very key
UnexpiredEntriesKept ==
    \A k \in DOMAIN searchCache :
        (now - searchCache[k].timestamp < 300000 /\ ~(CacheWriteOfRun /\ k = stream))
            => (k \in DOMAIN searchCache' /\ searchCache'[k] = searchCache[k])

\* C11: the cache changes only when a run completes successfully, by the write
\* of that run's own key; a failed or in-flight run leaves it unchanged, and no
\* other operation (a new location search, clearing the search, drawing an
\* area, changing filters) removes or replaces an existing unexpired entry.
C11_CacheChangedOnlyByCompletedRun ==
    [][(searchCache' # searchCache => CacheWriteOfRun) /\ UnexpiredEntriesKept]_vars

----------------------------------------------------------------------------
(* Claims about the events of a streamed run and about rejected requests.  *)

\* a streamed search is being served, or has been
StreamedRun == pc # "idle" /\ Streamed

\* positions of the events of one kind in what was sent
EventsAt(event) == { i \in 1..Len(sent) : sent[i].event = event }

\* the percent values of the progress events never decrease
PercentsNonDecreasing ==
    \A i \in EventsAt("progress"), j \in EventsAt("progress") :
        i < j => sent[i].percent <= sent[j].percent

\* a finished run without error: progress 'done' at 100, then the one results
\* event, then the end of the response
EndsWithDoneThenResults ==
    \E n \in EventsAt("results") :
        /\ EventsAt("results") = {n}
        /\ n > 1
        /\ sent[n - 1].event = "progress"
        /\ sent[n - 1].phase = "done"
        /\ sent[n - 1].percent = 100
        /\ n + 1 = Len(sent)
        /\ sent[n + 1].event = "end"

\* C12: in a streamed run the percent values of the progress events are
\* non-decreasing; a successful run ends with the progress event 'done' at
\* 100 followed by exactly one terminal results event; a run that raises an
\* error emits an error event and never a results event.
C12_StreamEventOrder ==
    StreamedRun =>
        /\ PercentsNonDecreasing
        /\ (pc = "done" /\ EventsAt("error") = {}) => EndsWithDoneThenResults
        /\ (pc = "done" /\ EventsAt("results") = {}) => EventsAt("error") # {}
        /\ EventsAt("error") # {} => EventsAt("results") = {}
        /\ pc # "done" => EventsAt("results") = {}

\* a streamed run that enriched two listings and has sent its results
C12_Witness ==
    /\ StreamedRun /\ pc = "done"
    /\ EventsAt("results") # {}
    /\ Cardinality({ i \in EventsAt("progress") : sent[i].phase = "enriching" }) >= 2

\* a streamed run with both coordinates that raised an error
C12_ErrorRunReached ==
    /\ StreamedRun /\ pc = "done"
    /\ request.latitude # 0 /\ request.longitude # 0
    /\ EventsAt("error") # {}

\* the request being served, or served, lacks a coordinate
RequestLacksCoordinate ==
    pc # "idle" /\ (request.latitude = 0 \/ request.longitude = 0)

\* the response is an error the client sees: status 400 for POST /search, an
\* error event and the end of the response for the stream
RejectedVisibly ==
    IF Streamed
    THEN sent = <<Msg("error", "", 0, <<>>), Msg("end", "", 0, <<>>)>>
    ELSE sent = <<Msg("json", "400", 0, <<>>)>>

\* C13: a request missing latitude or longitude ends with an error visible to
\* the client and performs no part of the run: no fetch, no enrichment call,
\* no upsert, no results.
C13_MissingCoordinatesRejected ==
    RequestLacksCoordinate =>
        /\ pc = "done"
        /\ RejectedVisibly
        /\ calls = NoCalls
        /\ allListings = <<>>
        /\ results = <<>>
        /\ db = <<>> /\ alerts = <<>>

\* a streamed request without latitude has been answered
C13_Witness ==
    /\ RequestLacksCoordinate /\ Streamed
    /\ request.latitude = 0
    /\ pc = "done" /\ sent # <<>>

----------------------------------------------------------------------------
(* Claims about one call of a tier operation *)

\* the positions of the listings the call was made with
TierIndexes == 1..Len(tierIn.properties)

\* a tier was called and has returned
TierReturned(op) == tierIn # <<>> /\ tierOut # <<>> /\ tierIn.op = op

\* the listings the loop of the tier works on
InTierBatch(i) ==
    LET p == tierIn.properties[i]
    IN  IF tierIn.op = "enrichBatch" THEN ~p.enriched /\ isWorthEnriching(p)
        ELSE IF tierIn.op = "refineBatchValuations"
        THEN p.zestimate = 0 \/ p.valuationSource = "ppsf_median"
        ELSE IF tierIn.op = "validateTopDeals"
        THEN LET top == TopByScore(tierIn.properties, LAMBDA q : q.dealScore >= 70,
                                   MAX_RENTCAST)
             IN  \E k \in 1..Len(top) : top[k] = i
        ELSE FALSE

\* the outcome of the external call of the tier for listing i
TierLookup(i) ==
    IF tierIn.op = "enrichBatch" THEN tierIn.attom[i]
    ELSE IF tierIn.op = "refineBatchValuations" THEN tierIn.zillow[i]
    ELSE tierIn.avm[i]

LookupFailed(i) == TierLookup(i).status \in {"down", "threw"}

\* estimatedValue and the distress flags of listing i are what they were; a
\* lien reported by the lien lookup of Tier 1, which did not fail, is not
\* counted as a change
ValueAndFlagsKept(i) ==
    LET before == tierIn.properties[i]
        after == tierOut[i]
    IN  /\ after.marketMedian = before.marketMedian
        /\ after.isDelinquent = before.isDelinquent
        /\ after.isPreForeclosure = before.isPreForeclosure
        /\ after.isAsIs = before.isAsIs
        /\ \/ after.hasTaxLien = before.hasTaxLien
           \/ tierIn.op = "enrichBatch" /\ i \in tierIn.liens

\* listing j got what its own lookup returned
ProcessedByTier(j) ==
    LET before == tierIn.properties[j]
        after == tierOut[j]
    IN  IF tierIn.op = "enrichBatch"
        THEN after = MergeEnrichment(before, tierIn.attom[j].data,
                        [hasTaxLien |-> j \in tierIn.liens, priceDropPercent |-> 0])
        ELSE IF tierIn.op = "refineBatchValuations"
        THEN after = Refined(before, tierIn.zillow[j].data)
        ELSE after = Validated(before, tierIn.avm[j].data)

\* C14: when the external call for one listing fails inside a tier (Tier 1
\* delinquency lookup, Tier 2 point-estimate lookup, Tier 3 AVM), that
\* listing's estimatedValue and distress flags after the tier equal the values
\* before, and every other listing of the batch is still processed.
C14_FailedLookupLeavesListing ==
    (tierIn # <<>> /\ tierOut # <<>> /\ tierIn.op # "enrichDeal") =>
        \A i \in TierIndexes :
            InTierBatch(i) =>
                IF LookupFailed(i) THEN ValueAndFlagsKept(i) ELSE ProcessedByTier(i)

\* the part of C14 that the code keeps: a lookup that throws into the try
\* block of its tier, and a failed AVM request, leave the listing as it was
ThrownLookupLeavesListing ==
    (tierIn # <<>> /\ tierOut # <<>> /\ tierIn.op # "enrichDeal") =>
        \A i \in TierIndexes :
            (InTierBatch(i) /\ LookupFailed(i)
                 /\ (TierLookup(i).status = "threw" \/ tierIn.op = "validateTopDeals"))
                => ValueAndFlagsKept(i)

\* the listings whose flags the call merges: the batch of enrichBatch without
\* the listings whose lookup threw, the first listing for enrichDeal
FlagsMerged(i) ==
    IF tierIn.op = "enrichBatch"
    THEN InTierBatch(i) /\ tierIn.attom[i].status # "threw"
    ELSE tierIn.op = "enrichDeal" /\ i = 1

\* what the lookups of the call returned for listing i
LookedUp(i) ==
    IF tierIn.op = "enrichBatch"
    THEN [isDelinquent |-> tierIn.attom[i].data.isDelinquent,
          isPreForeclosure |-> tierIn.attom[i].data.isPreForeclosure,
          hasTaxLien |-> i \in tierIn.liens]
    ELSE [isDelinquent |-> tierIn.attom.data.isDelinquent,
          isPreForeclosure |-> tierIn.attom.data.isPreForeclosure,
          hasTaxLien |-> tierIn.lien]

\* C15: enrichBatch and enrichDeal never clear a distress flag: a flag that
\* was true stays true, and the merged flag is the OR of the prior flag and the
\* looked-up flag (isAsIs, which has no lookup, is kept).
C15_DistressFlagsMonotonic ==
    (TierReturned("enrichBatch") \/ TierReturned("enrichDeal")) =>
        \A i \in TierIndexes :
            LET before == tierIn.properties[i]
                after == tierOut[i]
            IN  /\ before.isDelinquent => after.isDelinquent
                /\ before.isPreForeclosure => after.isPreForeclosure
                /\ before.hasTaxLien => after.hasTaxLien
                /\ before.isAsIs = after.isAsIs
                /\ FlagsMerged(i) =>
                      /\ after.isDelinquent =
                            (before.isDelinquent \/ LookedUp(i).isDelinquent)
                      /\ after.isPreForeclosure =
                            (before.isPreForeclosure \/ LookedUp(i).isPreForeclosure)
                      /\ after.hasTaxLien = (before.hasTaxLien \/ LookedUp(i).hasTaxLien)

\* enrichBatch merged a listing flagged pre-foreclosure whose lookup reported
\* no pre-foreclosure
C15_Witness ==
    /\ TierReturned("enrichBatch")
    /\ \E i \in TierIndexes :
          /\ FlagsMerged(i)
          /\ tierIn.properties[i].isPreForeclosure
          /\ ~LookedUp(i).isPreForeclosure
          /\ tierOut[i].isPreForeclosure
          /\ tierOut[i].enriched

\* C16: Tier 1 never changes an estimatedValue that is already set (non-zero);
\* the fallback market value of the lookup is written only to listings whose
\* estimatedValue was unset.
C16_Tier1KeepsSetValue ==
    TierReturned("enrichBatch") =>
        \A i \in TierIndexes :
            LET before == tierIn.properties[i]
                after == tierOut[i]
            IN  /\ Truthy(before.marketMedian) => after.marketMedian = before.marketMedian
                /\ after.marketMedian # before.marketMedian =>
                      /\ ~Truthy(before.marketMedian)
                      /\ FlagsMerged(i)
                      /\ after.marketMedian = RInt(tierIn.attom[i].data.marketMedian)

\* Tier 1 merged a listing whose estimatedValue was set while the lookup
\* returned another market value
C16_Witness ==
    /\ TierReturned("enrichBatch")
    /\ \E i \in TierIndexes :
          /\ FlagsMerged(i)
          /\ Truthy(tierIn.properties[i].marketMedian)
          /\ tierIn.attom[i].data.marketMedian # 0
          /\ RInt(tierIn.attom[i].data.marketMedian) # tierIn.properties[i].marketMedian
          /\ tierOut[i].enriched
          /\ tierOut[i].marketMedian = tierIn.properties[i].marketMedian

\* Tier 1 wrote the fallback market value to a listing that had none
C16_FallbackWritten ==
    /\ TierReturned("enrichBatch")
    /\ \E i \in TierIndexes :
          /\ ~Truthy(tierIn.properties[i].marketMedian)
          /\ Truthy(tierOut[i].marketMedian)

\* valuation source, external estimate, estimatedValue and score of listing i
\* are what they were
ValuationKept(i) ==
    LET before == tierIn.properties[i]
        after == tierOut[i]
    IN  /\ after.marketMedian = before.marketMedian
        /\ after.valuationSource = before.valuationSource
        /\ after.zestimate = before.zestimate
        /\ after.dealScore = before.dealScore

\* estimatedValue of listing i is the fetched estimate, tagged as verified,
\* and the listing is re-scored
ValuationOverwritten(i) ==
    LET after == tierOut[i]
    IN  /\ after.marketMedian = RInt(tierIn.zillow[i].data)
        /\ after.zestimate = tierIn.zillow[i].data
        /\ after.valuationSource = "zillow_per_property"
        /\ after.dealScore = scoreDeal(after)

\* C17: Tier 2 applies to the fetched estimate the plausibility test of the
\* estimator (ratio to the price within [0.4, 2.5] and, when the floor area is
\* known, price per area at most 2000); on success it overwrites
\* estimatedValue, tags it verified and re-scores; on failure estimatedValue,
\* valuationSource, the external estimate and dealScore are unchanged.
C17_Tier2AppliesEstimatorTest ==
    TierReturned("refineBatchValuations") =>
        \A i \in TierIndexes :
            IF InTierBatch(i) /\ tierIn.zillow[i].status # "threw"
               /\ isZestimateReliable(tierIn.zillow[i].data, tierIn.properties[i])
            THEN ValuationOverwritten(i)
            ELSE ValuationKept(i)

\* the part of C17 that the code keeps: the same with the ratio test alone
Tier2AppliesRatioTest ==
    TierReturned("refineBatchValuations") =>
        \A i \in TierIndexes :
            IF InTierBatch(i) /\ tierIn.zillow[i].status # "threw"
               /\ isZestimateReliable(tierIn.zillow[i].data,
                                      [tierIn.properties[i] EXCEPT !.sqft = 0])
            THEN ValuationOverwritten(i)
            ELSE ValuationKept(i)

\* listing i qualifies for Tier 3
Tier3Eligible(i) == tierIn.properties[i].dealScore >= 70

\* the qualifying listings that come before listing i in descending order of
\* dealScore whatever the order among equal scores is, and those that may
Tier3Before(i) ==
    { j \in TierIndexes \ {i} :
        Tier3Eligible(j) /\ tierIn.properties[j].dealScore > tierIn.properties[i].dealScore }

Tier3NotAfter(i) ==
    { j \in TierIndexes \ {i} :
        Tier3Eligible(j) /\ tierIn.properties[j].dealScore >= tierIn.properties[i].dealScore }

\* the listing has an external estimate that was verified: written by Tier 2,
\* or accepted by the plausibility test of the estimator
HasVerifiedEstimate(p) ==
    /\ p.zestimate > 0
    /\ \/ p.valuationSource = "zillow_per_property"
       \/ isZestimateReliable(p.zestimate, p)

\* listing i after Tier 3 is what the AVM value makes of it: the 60/40 blend
\* tagged as blended when blend holds, the AVM value otherwise, and re-scored
ValidatedAs(i, blend) ==
    LET before == tierIn.properties[i]
        after == tierOut[i]
        value == tierIn.avm[i].data
    IN  /\ IF blend
           THEN /\ after.marketMedian =
                      RInt(MathRound(RAdd(RMul(RInt(before.zestimate), Rat(6, 10)),
                                          RMul(RInt(value), Rat(4, 10)))))
                /\ after.valuationSource = "zillow+rentcast"
           ELSE /\ after.marketMedian = RInt(value)
                /\ after.valuationSource = "rentcast"
        /\ after.dealScore = scoreDeal(after)

\* C18: Tier 3 processes only listings with dealScore >= 70, at most 2 of
\* them, in descending order of dealScore; for each one whose AVM lookup yields
\* a value, estimatedValue becomes round(0.6 x prior + 0.4 x AVM), tagged as
\* blended, when the listing has a verified external estimate, and the AVM
\* value otherwise, after which the listing is re-scored.
C18_Tier3BlendsVerifiedEstimate ==
    TierReturned("validateTopDeals") =>
        /\ Cardinality({i \in TierIndexes : tierOut[i] # tierIn.properties[i]}) <= 2
        /\ \A i \in TierIndexes :
              /\ tierOut[i] # tierIn.properties[i] =>
                    /\ Tier3Eligible(i)
                    /\ Cardinality(Tier3Before(i)) < 2
                    /\ tierIn.avm[i].data # 0
              /\ (Tier3Eligible(i) /\ Cardinality(Tier3NotAfter(i)) < 2
                      /\ tierIn.avm[i].data # 0)
                    => ValidatedAs(i, HasVerifiedEstimate(tierIn.properties[i]))

\* the part of C18 that the code keeps: the same, with the blend taken
\* whenever the listing has an external estimate, verified or not
Tier3BlendsAnyEstimate ==
    TierReturned("validateTopDeals") =>
        /\ Cardinality({i \in TierIndexes : tierOut[i] # tierIn.properties[i]}) <= 2
        /\ \A i \in TierIndexes :
              /\ tierOut[i] # tierIn.properties[i] =>
                    /\ Tier3Eligible(i)
                    /\ Cardinality(Tier3Before(i)) < 2
                    /\ tierIn.avm[i].data # 0
              /\ (Tier3Eligible(i) /\ Cardinality(Tier3NotAfter(i)) < 2
                      /\ tierIn.avm[i].data # 0)
                    => ValidatedAs(i, tierIn.properties[i].zestimate > 0)

\* three listings qualified for Tier 3 and the AVM had a value for each
Tier3BudgetReached ==
    /\ TierReturned("validateTopDeals")
    /\ \A i \in TierIndexes : Tier3Eligible(i) /\ tierIn.avm[i].data # 0

----------------------------------------------------------------------------
(* Claims about what a search run persists *)

\* the valuation of the listing is a statistical estimate that no external
\* estimate verified: its own zestimate fails the plausibility test and no
\* tier has tagged it
UnverifiedValuation(listing) ==
    /\ listing.valuationSource = ""
    /\ ~isZestimateReliable(listing.zestimate, listing)

\* C19: a listing is persisted only if its dealScore is greater than 50 and,
\* when its valuation is still an unverified statistical estimate, its
\* price / estimatedValue ratio is at least 0.4.
C19_OnlyWorthSavingPersisted ==
    \A k \in DOMAIN db :
        /\ db[k].dealScore > 50
        /\ (UnverifiedValuation(db[k]) /\ Truthy(db[k].marketMedian))
              => RGe(RDiv(RInt(db[k].price), db[k].marketMedian), Rat(4, 10))

\* the part of C19 that the code keeps: nothing scoring 50 or less is persisted
OnlyAbove50Persisted == \A k \in DOMAIN db : db[k].dealScore > 50

\* a run has persisted a listing and has returned one scoring 50 or less
SavedAndUnsavedReturned ==
    /\ pc = "done" /\ DOMAIN db # {}
    /\ \E i \in 1..Len(results) : results[i].dealScore <= 50

\* a step of the final loop in which the upsert was attempted and failed
UpsertFailedStep ==
    /\ pc = "filter" /\ cursor <= Len(allListings)
    /\ calls'.findOneAndUpdate = calls.findOneAndUpdate + 1
    /\ db' = db

\* how often the listing of a street occurs in a list of results
Occurrences(res, street) == Cardinality({i \in 1..Len(res) : res[i].street = street})

\* C20: when the upsert of a listing fails in the final loop, the failure is
\* caught, the listing is still in the results (unsaved), exactly once, and
\* the loop goes on with the next listing; listings upserted earlier stay
\* persisted.
C20_UpsertFailureKeepsListing ==
    [][/\ \A k \in DOMAIN db : k \in DOMAIN db' /\ db'[k] = db[k]
       /\ UpsertFailedStep =>
             /\ Occurrences(results', allListings[cursor].street) = 1
             /\ results'[Len(results')] =
                   [allListings[cursor] EXCEPT !.dealScore = scoreDeal(allListings[cursor])]
             /\ SubSeq(results', 1, Len(results)) = results
             /\ cursor' = cursor + 1
             /\ pc' = "filter"]_vars

\* a finished run in which one upsert succeeded, a later one failed, and both
\* listings were returned
C20_Witness ==
    /\ pc = "done"
    /\ \E i \in 1..Len(allListings), j \in 1..Len(allListings) :
          /\ i < j
          /\ Matching(db, allListings[i]) # {}
          /\ allListings[j].dealScore > 50
          /\ Matching(db, allListings[j]) = {}
          /\ Occurrences(results, allListings[i].street) = 1
          /\ Occurrences(results, allListings[j].street) = 1

----------------------------------------------------------------------------
(* SpecStore: the Property collection under concurrent runs. A run (a      *)
(* search or runPipeline) awaits each upsert and its post hook before the  *)
(* next; the runs interleave at the awaits of the hook. An upsert itself   *)
(* is one step of the store.                                               *)

StoreRuns == {1, 2}

\* what the runs persist: deals scoring above 50, three natural keys
StoreListings ==
    {[street |-> k[1], zip |-> k[2], dealScore |-> d] :
        k \in {<<"1 Elm", "z1">>, <<"1 Elm", "z2">>, <<"2 Oak", "z1">>},
        d \in {60, 90}}

NoHook == [stage |-> "idle", id |-> 0, listing |-> <<>>, doc |-> <<>>]

StoreInit ==
    /\ scoreIn = <<>> /\ scoreOut = <<>> /\ estIn = <<>> /\ estOut = <<>>
    /\ NoRun /\ NoClient /\ NoTierCall /\ NoStats /\ NoGeo /\ connected = TRUE /\ searchLoading = FALSE
    /\ hooks = [r \in StoreRuns |-> NoHook]

StoreFrame == <<scoreVars, estVars, request, pc, page, hasMore, allListings,
                areaMedian, batch, datafinMap, cursor, results, sent, calls,
                clientVars, tierVars, statVars, geoVars, connected, searchLoading>>

\* await Property.findOneAndUpdate(...): the store applies the upsert and
\* hands the document to the post hook
StoreUpsert(r) ==
    /\ hooks[r].stage = "idle"
    /\ \E listing \in StoreListings :
          /\ db' = findOneAndUpdate(db, listing)
          /\ hooks' = [hooks EXCEPT ![r] =
                          [stage |-> "hook", id |-> SavedId(db', listing),
                           listing |-> listing, doc |-> db'[SavedId(db', listing)]]]
    /\ UNCHANGED <<alerts, StoreFrame>>

\* the post hook up to its first await: the test of the document it was
\* handed, and the call of sendWhatsAppAlert
HookSend(r) ==
    /\ hooks[r].stage = "hook"
    /\ IF alertDue(hooks[r].doc)
       THEN /\ alerts' = Append(alerts, hooks[r].id)
            /\ hooks' = [hooks EXCEPT ![r].stage = "mark"]
       ELSE /\ alerts' = alerts
            /\ hooks' = [hooks EXCEPT ![r] = NoHook]
    /\ UNCHANGED <<db, StoreFrame>>

\* the post hook after sendWhatsAppAlert: updateOne, then the upsert resolves
HookMark(r) ==
    /\ hooks[r].stage = "mark"
    /\ db' = markAlertSent(db, hooks[r].id)
    /\ hooks' = [hooks EXCEPT ![r] = NoHook]
    /\ UNCHANGED <<alerts, StoreFrame>>

StoreNext == \E r \in StoreRuns : StoreUpsert(r) \/ HookSend(r) \/ HookMark(r)

SpecStore == StoreInit /\ [][StoreNext]_vars

\* no two documents of the collection have the same street and postal code
OneRecordPerKey ==
    \A i, j \in DOMAIN db :
        (db[i].street = db[j].street /\ db[i].zip = db[j].zip) => i = j

\* a step in which run r upserts a listing whose key is already stored
ReUpsert(r) ==
    /\ hooks[r].stage = "idle" /\ hooks'[r].stage = "hook"
    /\ Matching(db, hooks'[r].listing) # {}

\* C21: persistence is an upsert by natural key: whatever runs came before,
\* the collection holds at most one document per (street, postal code), and
\* upserting a listing whose key is stored updates that document instead of
\* adding one.
C21_UpsertByNaturalKey ==
    [][/\ OneRecordPerKey'
       /\ \A r \in StoreRuns : ReUpsert(r) =>
             /\ Len(db') = Len(db)
             /\ \A i \in DOMAIN db :
                   IF i \in Matching(db, hooks'[r].listing)
                   THEN /\ db'[i].dealScore = hooks'[r].listing.dealScore
                        /\ db'[i].alertSent = db[i].alertSent
                   ELSE db'[i] = db[i]]_vars

\* a key stored and alerted by an earlier upsert has been upserted again with
\* another score: still one document, now with that score
C21_Witness ==
    /\ Len(db) = 1 /\ Len(alerts) = 1
    /\ \E r \in StoreRuns :
          /\ hooks[r].stage = "hook" /\ hooks[r].doc.alertSent
          /\ hooks[r].listing.dealScore = 60 /\ db[1].dealScore = 60

----------------------------------------------------------------------------
(* SpecStats: median and trimmedMedian applied to one list of samples, and *)
(* trimmedMedian applied to the list with one more value that lies beyond  *)
(* every sample.                                                           *)

MaxSamples == 7
MaxSample == 3

SampleLists == UNION {[1..n -> 1..MaxSample] : n \in 0..MaxSamples}

\* the samples as JavaScript Numbers
Numbers(samples) == [i \in DOMAIN samples |-> RInt(samples[i])]

StatsInit ==
    /\ scoreIn = <<>> /\ scoreOut = <<>> /\ estIn = <<>> /\ estOut = <<>>
    /\ NoRun /\ NoClient /\ NoTierCall /\ NoStore /\ NoGeo /\ connected = TRUE /\ searchLoading = FALSE
    /\ statIn \in {[samples |-> l, outlier |-> x] :
                       l \in SampleLists, x \in {0, MaxSample + 1}}
    /\ statOut = <<>>

StatsCall ==
    /\ statOut = <<>>
    /\ statOut' = [median |-> median(Numbers(statIn.samples)),
                   trimmedMedian |-> trimmedMedian(Numbers(statIn.samples)),
                   withOutlier |-> trimmedMedian(
                       Append(Numbers(statIn.samples), RInt(statIn.outlier)))]
    /\ UNCHANGED <<statIn, scoreVars, estVars, runVars, clientVars, tierVars,
                   storeVars, geoVars, connected, searchLoading>>

SpecStats == StatsInit /\ [][StatsCall]_vars

\* the k-th smallest of the samples: the value with fewer than k samples
\* below it and at least k samples not above it
KthSmallest(samples, k) ==
    CHOOSE v \in {samples[i] : i \in DOMAIN samples} :
        /\ Cardinality({i \in DOMAIN samples : samples[i] < v}) < k
        /\ Cardinality({i \in DOMAIN samples : samples[i] <= v}) >= k

\* the middle of the samples that remain when the t smallest and the t
\* largest are left out: the middle one of an odd number, the average of the
\* two middle ones of an even number
MiddleWithout(samples, t) ==
    LET m == Len(samples) - 2 * t
    IN  IF m % 2 = 1
        THEN RInt(KthSmallest(samples, t + (m + 1) \div 2))
        ELSE Rat(KthSmallest(samples, t + m \div 2)
                   + KthSmallest(samples, t + m \div 2 + 1), 2)

\* C22: the median of an empty list is 0, of an odd-length list the middle
\* value, of an even-length list the average of the two middle values; for
\* fewer than 5 samples trimmedMedian equals median, for 5 or more it is the
\* median of the sorted samples without floor(0.15 * n) values at each end.
C22_MedianAndTrimmedMedian ==
    statOut # <<>> =>
        LET samples == statIn.samples
            n == Len(samples)
        IN  /\ n = 0 => statOut.median = Zero
            /\ n > 0 => statOut.median = MiddleWithout(samples, 0)
            /\ n < 5 => statOut.trimmedMedian = statOut.median
            /\ n >= 5 => statOut.trimmedMedian
                            = MiddleWithout(samples, (15 * n) \div 100)

\* seven unsorted samples, the largest first and the smallest last, one
\* trimmed at each end
C22_Witness ==
    /\ statOut # <<>> /\ Len(statIn.samples) = 7
    /\ statIn.samples[1] = MaxSample /\ statIn.samples[7] = 1
    /\ statOut.trimmedMedian = RInt(2)

\* the samples of the call are at least 5 and the call has returned
OutlierCase == statOut # <<>> /\ Len(statIn.samples) >= 5

\* the added value lies above every sample (otherwise below every sample)
OutlierAbove == \A i \in DOMAIN statIn.samples : statIn.outlier > statIn.samples[i]

\* the largest and the smallest of the samples
Largest(samples) == KthSmallest(samples, Len(samples))
Smallest(samples) == KthSmallest(samples, 1)

\* C23 as claimed: for every list of at least 5 samples, adding one value
\* larger or smaller than every sample leaves trimmedMedian unchanged.
C23_OutlierLeavesTrimmedMedian ==
    OutlierCase => statOut.withOutlier = statOut.trimmedMedian

\* C23 as amended: for every list of at least 5 samples, the trimmedMedian
\* after adding one value larger (smaller) than every sample is the same
\* however far out that value lies, is not smaller (larger) than the
\* trimmedMedian before, and is not larger than the largest (not smaller
\* than the smallest) of the samples.
C23_OutlierMovesTrimmedMedianWithinSamples ==
    OutlierCase =>
        LET samples == statIn.samples
            farther == IF OutlierAbove THEN statIn.outlier + 100
                       ELSE statIn.outlier - 100
        IN  /\ trimmedMedian(Append(Numbers(samples), RInt(farther)))
                  = statOut.withOutlier
            /\ IF OutlierAbove
               THEN /\ RGe(statOut.withOutlier, statOut.trimmedMedian)
                    /\ RLe(statOut.withOutlier, RInt(Largest(samples)))
               ELSE /\ RLe(statOut.withOutlier, statOut.trimmedMedian)
                    /\ RGe(statOut.withOutlier, RInt(Smallest(samples)))

\* six samples and a value above them all: the trimmed median has moved up
C23_Witness ==
    /\ OutlierCase /\ OutlierAbove /\ Len(statIn.samples) = 6
    /\ RGt(statOut.withOutlier, statOut.trimmedMedian)

\* the listings of the working set with a positive price in a locality, and
\* those of them that have a floor area
PositivePriceIn(z) ==
    SelectSeq(allListings, LAMBDA l : l.price > 0 /\ ZipOf(l) = z)
WithAreaIn(z) == SelectSeq(PositivePriceIn(z), LAMBDA l : l.sqft > 0)
PositivePriceOfKind(k) ==
    SelectSeq(allListings, LAMBDA l : l.price > 0 /\ KeyOf(l) = k)
WithAreaOfKind(k) == SelectSeq(PositivePriceOfKind(k), LAMBDA l : l.sqft > 0)
PricesOf(listings) == [i \in DOMAIN listings |-> listings[i].price]

\* C24: the aggregator uses only listings with price > 0, emits a $/area
\* median for a locality+type or locality key exactly when that bucket has at
\* least 3 samples, and emits a locality-level price median for every
\* locality with at least one positive-price listing.
C24_AggregatorBuckets ==
    LET marketData == computeMarketData(allListings)
        localities == {ZipOf(allListings[i]) : i \in DOMAIN allListings}
        kinds == {KeyOf(allListings[i]) : i \in DOMAIN allListings}
    IN  /\ DOMAIN marketData.ppsfMedians_zip
              = {z \in localities : Len(WithAreaIn(z)) >= 3}
        /\ DOMAIN marketData.ppsfMedians_zipType
              = {k \in kinds : Len(WithAreaOfKind(k)) >= 3}
        /\ DOMAIN marketData.priceMedians_zip
              = {z \in localities : Len(PositivePriceIn(z)) >= 1}
        /\ \A z \in DOMAIN marketData.priceMedians_zip :
              marketData.priceMedians_zip[z]
                  = MiddleWithout(PricesOf(PositivePriceIn(z)), 0)
        /\ marketData.areaPriceMedian =
              IF \E i \in DOMAIN allListings : allListings[i].price > 0
              THEN MiddleWithout(PricesOf(SelectSeq(allListings,
                                     LAMBDA l : l.price > 0)), 0)
              ELSE Zero

\* an estimated working set of a priceless listing and two samples of one
\* locality: a price median for that locality only, and no $/area median
C24_Witness ==
    /\ pc # "estimate" /\ Len(allListings) = 3
    /\ allListings[1].price = 0
    /\ Len(WithAreaIn("z1")) = 2 /\ Len(PositivePriceIn("z2")) = 0
    /\ DOMAIN computeMarketData(allListings).priceMedians_zip = {"z1"}

\* three samples in one locality: its $/area median is emitted
ThreeSamplesEmitted ==
    /\ pc # "estimate" /\ Len(WithAreaIn("z1")) = 3
    /\ "z1" \in DOMAIN computeMarketData(allListings).ppsfMedians_zip

\* C27: the client-side market estimation mirrors the backend: for the same
\* listings the client computeMarketData produces the snapshot the backend
\* computeMarketData produces, and for every listing the client
\* estimateMarketValue returns what the backend estimateMarketValue returns.
C27_ClientMirrorsBackend ==
    LET marketData == computeMarketData(allListings)
    IN  /\ computeMarketDataClient(allListings) = marketData
        /\ \A i \in DOMAIN allListings :
              estimateMarketValueClient(allListings[i], marketData)
                  = estimateMarketValue(allListings[i], marketData)

\* the half of C27 that the code keeps: the two aggregators agree
SnapshotsAgree == computeMarketDataClient(allListings) = computeMarketData(allListings)

----------------------------------------------------------------------------
(* SpecGeo: the area statistics of the backend and of the client, and the  *)
(* client's bounds filter, applied to listings with coordinates.           *)
(* Coordinates are <<lng, lat>> in units of 0.00001 degree.                *)

\* a listing at the origin, one inside the drawn rectangle, one far from it
GeoPoints == {<<0, 0>>, <<-7401000, 4071000>>, <<-8019000, 2576000>>}

\* south, west, north, east
GeoBounds == DrawnRectangles \cup {<<-100, -100, 100, 100>>}

GeoListingsAt(street) ==
    {[coordinates |-> c] @@ MarketListing(street, "z1", price, 1, 0) :
        c \in GeoPoints, price \in {0, 1, MaxMarketPrice}}

GeoInit ==
    /\ scoreIn = <<>> /\ scoreOut = <<>> /\ estIn = <<>> /\ estOut = <<>>
    /\ NoRun /\ NoClient /\ NoTierCall /\ NoStore /\ NoStats
    /\ \E a \in GeoListingsAt("1 Elm"), b \in GeoListingsAt("2 Oak"),
          c \in GeoListingsAt("3 Ash"), bounds \in GeoBounds :
          geoIn = [listings |-> <<a, b, c>>, bounds |-> bounds]
    /\ geoOut = <<>>
    /\ connected = TRUE /\ searchLoading = FALSE

\* coords[0] === 0 && coords[1] === 0
AtOrigin(p) == p.coordinates[1] = 0 /\ p.coordinates[2] = 0

\* App: the geographic bounds filter of the properties shown
InActiveBounds(p, activeBounds) ==
    IF AtOrigin(p) THEN FALSE
    ELSE LET pLat == p.coordinates[2]
             pLng == p.coordinates[1]
             south == activeBounds[1]
             west == activeBounds[2]
             north == activeBounds[3]
             east == activeBounds[4]
         IN  ~(pLat < south \/ pLat > north \/ pLng < west \/ pLng > east)

\* the search handler computes its statistics over all it fetched; the client
\* shows what passes the bounds filter, and handleSearchDrawnArea computes
\* its statistics over the results that are not at the origin
GeoCall ==
    /\ geoOut = <<>>
    /\ LET filtered == SelectSeq(geoIn.listings, LAMBDA p : ~AtOrigin(p))
       IN  geoOut' =
             [backend |-> computeMarketData(geoIn.listings),
              shown |-> SelectSeq(geoIn.listings,
                                  LAMBDA p : InActiveBounds(p, geoIn.bounds)),
              drawnArea |-> computeMarketDataClient(filtered)]
    /\ UNCHANGED <<geoIn, scoreVars, estVars, runVars, clientVars, tierVars,
                   storeVars, statVars, connected, searchLoading>>

SpecGeo == GeoInit /\ [][GeoCall]_vars

\* the listings of the call that are not at the origin
Located == SelectSeq(geoIn.listings, LAMBDA p : ~AtOrigin(p))

\* the area-wide price median over the positive prices of some listings
AreaPriceMedianOf(listings) ==
    IF \E i \in DOMAIN listings : listings[i].price > 0
    THEN MiddleWithout(PricesOf(SelectSeq(listings, LAMBDA l : l.price > 0)), 0)
    ELSE Zero

\* on the client no listing at (0,0) is shown within a bounding region, and
\* the statistics of a drawn area are those of the located listings
ClientExcludesOrigin ==
    geoOut # <<>> =>
        /\ \A i \in DOMAIN geoOut.shown : ~AtOrigin(geoOut.shown[i])
        /\ geoOut.drawnArea.areaPriceMedian = AreaPriceMedianOf(Located)
        /\ geoOut.drawnArea = computeMarketDataClient(Located)

\* C25: a listing at geolocation (0,0) never contributes to an area-level
\* statistic and never passes a bounding-region filter, on the backend and
\* on the client.
C25_OriginExcluded ==
    geoOut # <<>> =>
        /\ ClientExcludesOrigin
        /\ geoOut.backend.areaPriceMedian = AreaPriceMedianOf(Located)

\* a listing at (0,0) inside the bounding region was not shown
OriginInsideBoundsHidden ==
    /\ geoOut # <<>> /\ geoIn.bounds[1] < 0
    /\ AtOrigin(geoIn.listings[1]) /\ Len(geoOut.shown) = 0

----------------------------------------------------------------------------
(* SpecFallback: two runs of the three tiers over the same two listings    *)
(* with no credential configured: every lookup of a run returns what the   *)
(* mock generator of its source draws.                                     *)

\* what the mock generators draw in one run: the lien lookup for each
\* listing, and one ATTOM record, one zestimate and one AVM value
MockDraws ==
    {[liens |-> l, attom |-> a, zillow |-> z, avm |-> v] :
        l \in {{}, {1, 2}}, a \in getMockAttomData, z \in getMockData,
        v \in getMockAVM}

\* the working sets of two listings after estimation and scoring
FallbackWorkingSets ==
    {Scored(Estimated(ls)) : ls \in {p \in Pages(TierListings, 2) : Len(p) = 2}}

FallbackInit ==
    /\ scoreIn = <<>> /\ scoreOut = <<>> /\ estIn = <<>> /\ estOut = <<>>
    /\ NoRun /\ NoClient /\ NoStore /\ NoStats /\ NoGeo /\ connected = TRUE /\ searchLoading = FALSE
    /\ \E properties \in FallbackWorkingSets, first \in MockDraws, second \in MockDraws :
          tierIn = [op |-> "tiers", properties |-> properties,
                    draws |-> <<first, second>>]
    /\ tierOut = <<>>

\* Tier 1, Tier 2 and Tier 3 over the listings, every lookup answered by the
\* mock generator
MockedTiers(properties, draw) ==
    LET batch1 == enrichBatch(properties, draw.liens,
                              [i \in 1..2 |-> draw.attom], {})
        batch2 == refineBatchValuations(batch1, [i \in 1..2 |-> draw.zillow])
    IN  validateTopDeals(batch2, [i \in 1..2 |-> draw.avm])

\* both runs, each to its end
FallbackRuns ==
    /\ tierIn # <<>> /\ tierOut = <<>>
    /\ tierOut' = [run \in 1..2 |-> MockedTiers(tierIn.properties, tierIn.draws[run])]
    /\ UNCHANGED TierCallFrame

SpecFallback == FallbackInit /\ [][FallbackRuns]_vars

\* the listings a run persists: those scoring above 50
PersistedOf(listings) == {i \in DOMAIN listings : listings[i].dealScore > 50}

\* C26: with credentials absent every external source degrades to a
\* deterministic fallback: two runs over the same listings produce the same
\* flags, estimated values and dealScores, and so the same persisted set.
C26_FallbackRunsAgree ==
    tierOut # <<>> =>
        /\ \A i \in DOMAIN tierOut[1] :
              /\ tierOut[1][i].isDelinquent = tierOut[2][i].isDelinquent
              /\ tierOut[1][i].isPreForeclosure = tierOut[2][i].isPreForeclosure
              /\ tierOut[1][i].hasTaxLien = tierOut[2][i].hasTaxLien
              /\ tierOut[1][i].marketMedian = tierOut[2][i].marketMedian
              /\ tierOut[1][i].dealScore = tierOut[2][i].dealScore
        /\ PersistedOf(tierOut[1]) = PersistedOf(tierOut[2])

\* two runs over the same listings persist different sets
PersistedSetsDiffer ==
    tierOut # <<>> /\ PersistedOf(tierOut[1]) # PersistedOf(tierOut[2])

----------------------------------------------------------------------------
(* SpecPipeline: runPipeline from the return of its fetch on. The run      *)
(* variables hold its locals: allListings is listings, batch the array     *)
(* enrichBatch returns (as indexes), results the properties counted in     *)
(* savedCount, sent the summary returned.                                  *)

MaxScraped == 16
MaxUpsertFailures == 1

\* the i-th listing fetched: a distressed bargain, a bargain, or a listing
\* at its market value, in turn; with shift 3 all are distressed bargains
PipelineListing(i, shift) ==
    LET street == ToString(i) \o " Elm"
        kind == IF shift = 3 THEN 0 ELSE (i + shift) % 3
    IN  IF kind = 0
        THEN RawListing(street, "z1", "condo", "preForeclosure", 70, 1, 100, 61, TRUE)
        ELSE IF kind = 1
        THEN RawListing(street, "z1", "condo", "forSale", 78, 1, 100, 0, FALSE)
        ELSE RawListing(street, "z2", "house", "forSale", 100, 2, 100, 0, FALSE)

PipelineInit ==
    /\ scoreIn = <<>> /\ scoreOut = <<>> /\ estIn = <<>> /\ estOut = <<>>
    /\ request = <<>> /\ pc = "fetched" /\ page = 1 /\ hasMore = FALSE
    /\ \E n \in (0..2) \cup (MAX_ENRICH..MaxScraped), shift \in 0..3 :
          allListings = [i \in 1..n |-> PipelineListing(i, shift)]
    /\ areaMedian = Zero /\ batch = <<>> /\ datafinMap = <<>> /\ cursor = 0
    /\ results = <<>> /\ sent = <<>>
    /\ calls = [NoCalls EXCEPT !.searchByCoordinates = 1]
    /\ db = <<>> /\ alerts = <<>>
    /\ NoClient /\ NoTierCall /\ NoStore /\ NoStats /\ NoGeo /\ connected = TRUE /\ searchLoading = FALSE

\* the zestOk test of runPipeline
zestOk(l) ==
    /\ l.zestimate # 0 /\ l.zestimate > 0 /\ l.price > 0
    /\ RLe(Rat(l.zestimate, l.price), Rat(25, 10))
    /\ RGe(Rat(l.zestimate, l.price), Rat(4, 10))
    /\ (l.sqft = 0 \/ l.sqft <= 0 \/ RLt(Rat(l.zestimate, l.sqft), RInt(2000)))

\* the marketMedian runPipeline assigns to each listing from its zip-level
\* medians
PipelineEstimated(listings) ==
    LET marketData == computeMarketData(listings)
        ppsfOf(l) == OrElse(Get(marketData.ppsfMedians_zip, ZipOf(l)),
                            marketData.areaPpsfMedian)
        priceOf(l) == OrElse(Get(marketData.priceMedians_zip, ZipOf(l)),
                             OrElse(marketData.areaPriceMedian, Zero))
    IN  [i \in 1..Len(listings) |->
            LET l == listings[i]
            IN  [l EXCEPT !.marketMedian =
                    IF zestOk(l) THEN RInt(l.zestimate)
                    ELSE IF l.sqft # 0 /\ l.sqft > 0
                    THEN IF RGt(ppsfOf(l), Zero)
                         THEN RInt(MathRound(RMul(ppsfOf(l), RInt(l.sqft))))
                         ELSE priceOf(l)
                    ELSE priceOf(l)]]

\* no listing fetched: return { scraped: 0, enriched: 0, saved: 0 }
PipelineEmpty ==
    /\ pc = "fetched" /\ Len(allListings) = 0
    /\ sent' = <<[scraped |-> 0, enriched |-> 0, saved |-> 0]>>
    /\ pc' = "done"
    /\ UNCHANGED <<request, page, hasMore, allListings, areaMedian, batch, datafinMap,
                   cursor, results, calls, db, alerts, scoreVars, estVars,
                   clientVars, tierVars, storeVars, statVars, geoVars, connected, searchLoading>>

\* the market data of the fetched listings and the marketMedian assigned to
\* each of them
PipelineEstimate ==
    /\ pc = "fetched" /\ Len(allListings) > 0
    /\ allListings' = PipelineEstimated(allListings)
    /\ pc' = "estimated"
    /\ UNCHANGED <<request, page, hasMore, areaMedian, batch, datafinMap, cursor,
                   results, sent, calls, db, alerts, scoreVars, estVars,
                   clientVars, tierVars, storeVars, statVars, geoVars, connected, searchLoading>>

\* enrichBatch over the candidates, and the scores of the listings that were
\* not enriched
PipelineEnrich ==
    /\ pc = "estimated"
    /\ LET n == Len(allListings)
           candidates == Candidates(allListings, n)
           enriched == Slice(SortByRatio(allListings, candidates), MAX_ENRICH)
       IN  /\ batch' = enriched
           /\ \E attom \in AttomResults, lien \in BOOLEAN, threw \in BOOLEAN :
                 LET after == enrichBatch(allListings,
                                  IF lien THEN 1..n ELSE {},
                                  [i \in 1..n |-> attom],
                                  IF threw /\ enriched # <<>> THEN {enriched[1]} ELSE {})
                 IN  allListings' =
                        [i \in 1..n |->
                            IF after[i].enriched THEN after[i]
                            ELSE [after[i] EXCEPT !.dealScore = scoreDeal(after[i])]]
           /\ calls' = [calls EXCEPT !.fetchDatafinitiBatch = @ + 1,
                                     !.fetchAttomData = @ + Len(enriched)]
    /\ cursor' = 1
    /\ pc' = "save"
    /\ UNCHANGED <<request, page, hasMore, areaMedian, datafinMap, results, sent,
                   db, alerts, scoreVars, estVars, clientVars, tierVars,
                   storeVars, statVars, geoVars, connected, searchLoading>>

\* one iteration of the save loop over the enriched array
PipelineSave ==
    /\ pc = "save" /\ cursor <= Len(batch)
    /\ LET property == allListings[batch[cursor]]
       IN  IF property.dealScore > 50
           THEN /\ calls' = [calls EXCEPT !.findOneAndUpdate = @ + 1]
                /\ \/ LET saved == findOneAndUpdate(db, property)
                          id == SavedId(saved, property)
                      IN  /\ db' = IF alertDue(saved[id])
                                   THEN markAlertSent(saved, id) ELSE saved
                          /\ alerts' = IF alertDue(saved[id])
                                       THEN Append(alerts, id) ELSE alerts
                          /\ results' = Append(results, property)
                   \* findOneAndUpdate rejects: logged, not counted
                   \/ /\ calls.findOneAndUpdate - Len(results) < MaxUpsertFailures
                      /\ UNCHANGED <<db, alerts, results>>
           ELSE UNCHANGED <<calls, db, alerts, results>>
    /\ cursor' = cursor + 1
    /\ UNCHANGED <<request, pc, page, hasMore, allListings, areaMedian, batch,
                   datafinMap, sent, scoreVars, estVars, clientVars, tierVars,
                   storeVars, statVars, geoVars, connected, searchLoading>>

\* return summary
PipelineReturn ==
    /\ pc = "save" /\ cursor > Len(batch)
    /\ sent' = <<[scraped |-> Len(allListings), enriched |-> Len(batch),
                  saved |-> Len(results)]>>
    /\ pc' = "done"
    /\ UNCHANGED <<request, page, hasMore, allListings, areaMedian, batch, datafinMap,
                   cursor, results, calls, db, alerts, scoreVars, estVars,
                   clientVars, tierVars, storeVars, statVars, geoVars, connected, searchLoading>>

PipelineNext ==
    PipelineEmpty \/ PipelineEstimate \/ PipelineEnrich \/ PipelineSave \/ PipelineReturn

SpecPipeline == PipelineInit /\ [][PipelineNext]_vars

\* the run is over and none of its upserts was rejected
PipelineDoneCleanly == pc = "done" /\ calls.findOneAndUpdate = Len(results)

\* no listing scoring 50 or less is stored, and the summary is ordered
PipelineSummaryOrdered ==
    /\ \A k \in DOMAIN db : db[k].dealScore > 50
    /\ pc = "done" =>
          /\ sent[1].saved <= sent[1].enriched
          /\ sent[1].enriched <= sent[1].scraped

\* C28: runPipeline upserts every fetched listing whose final dealScore is
\* greater than 50 and no listing whose dealScore is 50 or less, and its
\* summary satisfies saved <= enriched <= scraped.
C28_PipelineSavesAbove50 ==
    /\ PipelineSummaryOrdered
    /\ PipelineDoneCleanly =>
          \A i \in DOMAIN allListings :
              allListings[i].dealScore > 50 => Matching(db, allListings[i]) # {}

\* a run that saved some listings and skipped an enriched one
PipelineSavedAndSkipped ==
    /\ pc = "done" /\ sent[1].saved > 0 /\ sent[1].saved < sent[1].enriched

----------------------------------------------------------------------------
(* SpecDisconnect: the search of SpecSave, whose consumer may close the    *)
(* connection at any point of the run. The handler registers no listener   *)
(* on the request or the response, and tests neither before it writes.     *)

\* the consumer of a streamed search closes the EventSource
Disconnect ==
    /\ connected /\ Streamed /\ pc # "done"
    /\ connected' = FALSE
    /\ UNCHANGED <<scoreVars, estVars, runVars, clientVars, tierVars, storeVars,
                   statVars, geoVars, searchLoading>>

DisconnectNext == SaveNext \/ Disconnect

SpecDisconnect == SaveInit /\ [][DisconnectNext]_vars

\* C29: if the consumer of the streamed search disconnects during a run, the
\* pipeline emits no further progress or results event after the disconnect.
C29_NoEventAfterDisconnect ==
    [][~connected => sent' = sent]_vars

\* a run that ended after its consumer had gone
DisconnectedRunEnded == ~connected /\ pc = "done"

----------------------------------------------------------------------------
(* Claims about the alerts of the store (SpecStore) *)

\* every alert is sent from a post hook whose document scored above 80
AlertOnlyAbove80 ==
    [][alerts' # alerts =>
          \E r \in StoreRuns :
              /\ hooks[r].stage = "hook" /\ hooks[r].doc.dealScore > 80
              /\ alerts' = Append(alerts, hooks[r].id)]_vars

\* C30: a hot-deal alert is sent only for a stored property, and at most
\* once per property, for any sequence and any interleaving of upserts of
\* the same (street, postal code) by concurrent runs.
C30_AlertAtMostOncePerProperty ==
    /\ \A i \in DOMAIN alerts : alerts[i] \in DOMAIN db
    /\ \A i, j \in DOMAIN alerts : alerts[i] = alerts[j] => i = j

\* a property was alerted once, upserted again above 80 and not alerted again
AlertedOnceThenUpsertedAgain ==
    /\ Len(alerts) = 1 /\ Len(db) = 1
    /\ \E r \in StoreRuns :
          /\ hooks[r].stage = "hook" /\ hooks[r].doc.alertSent
          /\ hooks[r].doc.dealScore > 80

----------------------------------------------------------------------------
(* SpecEnrichRun: one call enrichBatch(candidates, onProgress) over a      *)
(* working set large enough for the cap to bind. tierIn holds the working  *)
(* set as it is handed over and what the lookups of this run answer; sent  *)
(* holds the (current, total) pairs onProgress was called with.            *)

\* most listings of the working set
MaxBatchInput == 20

\* the i-th listing of the working set: every fifth at its market value with
\* no signal, and among the others (by i modulo 7) a stale overpriced one,
\* an as-is one with no price, or a pre-foreclosure below its zestimate
EnrichListing(i) ==
    LET street == ToString(i) \o " Elm"
    IN  IF i % 5 = 0
        THEN RawListing(street, "z1", "condo", "forSale", 100, 1, 100, 0, FALSE)
        ELSE IF i % 7 = 1
        THEN RawListing(street, "z1", "condo", "forSale", 120, 1, 100, 50, FALSE)
        ELSE IF i % 7 = 3
        THEN RawListing(street, "z1", "condo", "forSale", 0, 1, 100, 0, TRUE)
        ELSE RawListing(street, "z1", "condo", "preForeclosure",
                        60 + ((i * 7) % 17), 1, 100, 0, FALSE)

EnrichRunInit ==
    /\ scoreIn = <<>> /\ scoreOut = <<>> /\ estIn = <<>> /\ estOut = <<>>
    /\ request = <<>> /\ pc = "enrichBatch" /\ page = 1 /\ hasMore = FALSE
    /\ \E n \in {0, 1, 3} \cup ((MaxBatchInput - 2)..MaxBatchInput),
          attom \in AttomResults, lien \in BOOLEAN, threw \in BOOLEAN :
          /\ allListings = Estimated([i \in 1..n |-> EnrichListing(i)])
          /\ tierIn = [op |-> "enrichBatch", properties |-> allListings,
                       attom |-> attom, lien |-> lien, threw |-> threw]
    /\ areaMedian = Zero /\ batch = <<>> /\ datafinMap = <<>> /\ cursor = 0
    /\ results = <<>> /\ sent = <<>> /\ calls = NoCalls
    /\ db = <<>> /\ alerts = <<>> /\ tierOut = <<>>
    /\ NoClient /\ NoStore /\ NoStats /\ NoGeo /\ connected = TRUE /\ searchLoading = FALSE

\* enrichBatch up to its loop: sort, slice, await fetchDatafinitiBatch
EnrichRunStart ==
    /\ pc = "enrichBatch"
    /\ LET sorted == SortByRatio(allListings,
                                 Candidates(allListings, Len(allListings)))
           capped == Slice(sorted, MAX_ENRICH)
           streets == {allListings[capped[i]].street : i \in 1..Len(capped)}
       IN  /\ batch' = capped
           /\ datafinMap' = [st \in streets |->
                                [hasTaxLien |-> tierIn.lien, priceDropPercent |-> 0]]
           /\ pc' = IF capped = <<>> THEN "done" ELSE "enrich"
    /\ calls' = [calls EXCEPT !.fetchDatafinitiBatch = @ + 1]
    /\ cursor' = 1
    /\ UNCHANGED <<request, page, hasMore, allListings, areaMedian, results, sent,
                   db, alerts, scoreVars, estVars, clientVars, tierVars,
                   storeVars, statVars, geoVars, connected, searchLoading>>

\* one iteration of the loop: onProgress, fetchAttomData, merge or catch
EnrichRunStep ==
    /\ pc = "enrich"
    /\ LET i == batch[cursor]
           property == allListings[i]
       IN  allListings' = [allListings EXCEPT ![i] =
               IF tierIn.threw /\ cursor = 1
               THEN EnrichFailed(property)
               ELSE MergeEnrichment(property, tierIn.attom,
                                    DatafinOf(datafinMap, property.street))]
    /\ sent' = Append(sent, <<cursor, Len(batch)>>)
    /\ calls' = [calls EXCEPT !.fetchAttomData = @ + 1]
    /\ cursor' = cursor + 1
    /\ pc' = IF cursor = Len(batch) THEN "done" ELSE "enrich"
    /\ UNCHANGED <<request, page, hasMore, areaMedian, batch, datafinMap, results,
                   db, alerts, scoreVars, estVars, clientVars, tierVars,
                   storeVars, statVars, geoVars, connected, searchLoading>>

EnrichRunNext == EnrichRunStart \/ EnrichRunStep

SpecEnrichRun == EnrichRunInit /\ [][EnrichRunNext]_vars

\* the candidates handed to enrichBatch, as indexes of the working set
CandidatesHanded ==
    {i \in DOMAIN tierIn.properties :
        ~tierIn.properties[i].enriched /\ isWorthEnriching(tierIn.properties[i])}

\* price / estimatedValue of a candidate as handed over, 1 when either is
\* missing
RatioHanded(i) ==
    LET p == tierIn.properties[i]
    IN  IF p.price = 0 \/ p.marketMedian = Zero THEN RInt(1)
        ELSE RDiv(RInt(p.price), p.marketMedian)

BatchSet == {batch[k] : k \in DOMAIN batch}

\* the batch is MAX_ENRICH candidates (all of them when there are fewer), no
\* candidate left out has a lower ratio than one taken, and the batch is in
\* ascending order of ratio
BatchIsLowestRatios ==
    /\ BatchSet \subseteq CandidatesHanded
    /\ Cardinality(BatchSet) = Len(batch)
    /\ Len(batch) = Min(MAX_ENRICH, Cardinality(CandidatesHanded))
    /\ \A i \in BatchSet, j \in CandidatesHanded \ BatchSet :
          RLe(RatioHanded(i), RatioHanded(j))
    /\ \A k \in 1..(Len(batch) - 1) :
          RLe(RatioHanded(batch[k]), RatioHanded(batch[k + 1]))

\* C31: one enrichBatch run calls fetchDatafinitiBatch exactly once, and no
\* listing is looked up or merged before that call has returned; it calls
\* fetchAttomData at most MAX_ENRICH times, once per listing of the batch in
\* order; the batch is the MAX_ENRICH candidates of lowest price/value ratio
\* (ratio 1 for a missing price or value); and onProgress is called with
\* (1, total), (2, total), ... (total, total), total the size of the batch.
C31_Tier1OneBatchedLookupAndCap ==
    /\ pc = "enrichBatch" =>
          /\ calls.fetchDatafinitiBatch = 0 /\ calls.fetchAttomData = 0
          /\ allListings = tierIn.properties /\ sent = <<>>
    /\ pc # "enrichBatch" =>
          /\ calls.fetchDatafinitiBatch = 1
          /\ calls.fetchAttomData <= MAX_ENRICH
          /\ calls.fetchAttomData = Len(sent)
          /\ BatchIsLowestRatios
          /\ sent = [k \in 1..Len(sent) |-> <<k, Len(batch)>>]
          /\ \A i \in DOMAIN allListings :
                allListings[i] # tierIn.properties[i] =>
                    \E k \in 1..Len(sent) : batch[k] = i
    /\ pc = "done" => Len(sent) = Len(batch)

\* a finished run over 16 candidates: one batched lookup, 15 listings looked
\* up, a candidate without a price taken and a dearer one left out
C31_Witness ==
    /\ pc = "done" /\ Cardinality(CandidatesHanded) > MAX_ENRICH
    /\ calls.fetchDatafinitiBatch = 1 /\ calls.fetchAttomData = MAX_ENRICH
    /\ sent[MAX_ENRICH] = <<MAX_ENRICH, MAX_ENRICH>>
    /\ \E i \in BatchSet : tierIn.properties[i].price = 0
    /\ \E j \in CandidatesHanded \ BatchSet : RGt(RatioHanded(j), RInt(1))
    /\ \E k \in 1..(Len(batch) - 1) : batch[k] > batch[k + 1]

----------------------------------------------------------------------------
(* Claims about the selection of the listings Tier 1 looks up (Spec) *)

\* the listing shows one of the signals: a pre-foreclosure or as-is flag, a
\* price under nine tenths of its estimated value, more than 45 days on the
\* market, or a price drop of more than 10 percent
HasSignal(l) ==
    \/ l.isPreForeclosure
    \/ l.isAsIs
    \/ RLt(RInt(l.price * 10), RMul(l.marketMedian, RInt(9)))
    \/ l.daysOnMarket > 45
    \/ l.priceDropPercent > 10

Selectable(l) == ~l.enriched /\ HasSignal(l)

\* the step selects the batch of a Tier 1 run
SelectsBatch == pc = "enrichBatch" /\ pc' # "enrichBatch"

\* the step issues a per-listing Tier 1 lookup
IssuesLookup == calls'.fetchAttomData # calls.fetchAttomData

\* C32: in a search run, the batch Tier 1 selects, which is also the set of
\* addresses of its batched lookup, holds only listings that are at that
\* moment not enriched and show a signal; every per-listing lookup is for
\* the listing of the batch whose turn it is, and changes no other listing.
C32_LookupOnlyForWorthEnriching ==
    [][/\ SelectsBatch =>
             /\ \A k \in DOMAIN batch' : Selectable(allListings[batch'[k]])
             /\ DOMAIN datafinMap' =
                    {allListings[batch'[k]].street : k \in DOMAIN batch'}
       /\ IssuesLookup =>
             /\ pc = "enrich" /\ cursor \in DOMAIN batch
             /\ calls'.fetchAttomData = calls.fetchAttomData + 1
             /\ \A j \in DOMAIN allListings :
                   j # batch[cursor] => allListings'[j] = allListings[j]
       /\ (~SelectsBatch /\ pc' # "idle") => batch' = batch]_vars

\* a run that looked up a listing with a signal and ended with a listing
\* that shows none and was never enriched
C32_Witness ==
    /\ pc = "done" /\ calls.fetchAttomData > 0
    /\ \E i \in DOMAIN allListings : allListings[i].enriched
    /\ \E i \in DOMAIN allListings :
          ~HasSignal(allListings[i]) /\ ~allListings[i].enriched

----------------------------------------------------------------------------
(* SpecRefineRun: refineBatchValuations called on the same working set     *)
(* several times in a row, the working set large enough for the cap to     *)
(* bind. tierIn holds what fetchZillowData answers in each run. tierOut    *)
(* holds, for the checks, the working set as it was when the current run   *)
(* began, the run's counter `refined`, the listings handed to              *)
(* fetchZillowData in call order, the values the finished runs returned    *)
(* and the listings they refined.                                          *)

\* most listings of the working set
MaxRefineInput == 23
\* number of consecutive Tier 2 runs
MaxRefineRuns == 2

\* the i-th listing of the working set: every eighth with a zestimate from
\* the search, the fifth with a zestimate and its valuation marked as a
\* median estimate, the others without zestimate
RefineListing(i) ==
    LET street == ToString(i) \o " Elm"
        price == 60 + ((i * 7) % 17)
    IN  IF i % 8 = 0
        THEN RawListing(street, "z1", "condo", "forSale", 90, 1, 100, 0, FALSE)
        ELSE IF i = 5
        THEN [RawListing(street, "z1", "condo", "forSale", 120, 1, 300, 50, FALSE)
                 EXCEPT !.valuationSource = "ppsf_median"]
        ELSE RawListing(street, "z1", "condo",
                        IF i % 3 = 0 THEN "preForeclosure" ELSE "forSale",
                        price, 1, 0, IF i % 2 = 0 THEN 61 ELSE 0, i % 6 = 1)

\* what fetchZillowData answers for the listings of one run: a plausible
\* zestimate for all, none (or the lookup throws), an implausible one, or
\* each of the three in turn
ZillowPatterns == {"plausible", "none", "wild", "mixed"}

ZillowAnswer(pattern, i) ==
    IF pattern = "plausible" THEN 100
    ELSE IF pattern = "none" THEN 0
    ELSE IF pattern = "wild" THEN 300
    ELSE <<100, 0, 300>>[(i % 3) + 1]

\* A variant that selects every property.
missingZestimateAll(p) == TRUE

\* !p.zestimate || p.valuationSource === 'ppsf_median'
missingZestimate(p) == p.zestimate = 0 \/ p.valuationSource = "ppsf_median"

RefineRunInit ==
    /\ scoreIn = <<>> /\ scoreOut = <<>> /\ estIn = <<>> /\ estOut = <<>>
    /\ request = <<>> /\ pc = "refine" /\ page = 1 /\ hasMore = FALSE
    /\ \E n \in {0, 2} \cup ((MaxRefineInput - 1)..MaxRefineInput) :
          allListings = Scored(Estimated([i \in 1..n |-> RefineListing(i)]))
    /\ \E answers \in [1..MaxRefineRuns -> ZillowPatterns] :
          tierIn = [op |-> "refineBatchValuations", answers |-> answers]
    /\ tierOut = [before |-> allListings, refined |-> 0, lookups |-> <<>>,
                  returned |-> <<>>, refinedEarlier |-> {}]
    /\ areaMedian = Zero /\ batch = <<>> /\ datafinMap = <<>> /\ cursor = 0
    /\ results = <<>> /\ sent = <<>> /\ calls = NoCalls
    /\ db = <<>> /\ alerts = <<>>
    /\ NoClient /\ NoStore /\ NoStats /\ NoGeo /\ connected = TRUE /\ searchLoading = FALSE

RefineFrame ==
    <<request, page, hasMore, areaMedian, datafinMap, results, sent, calls, db,
      alerts, tierIn, scoreVars, estVars, clientVars, storeVars, statVars,
      geoVars, connected, searchLoading>>

\* refineBatchValuations up to its loop: filter, sort, slice; return 0 for
\* an empty batch
RefineRunStart ==
    /\ pc = "refine"
    /\ LET selected == TopByScore(allListings, missingZestimate, MAX_ZILLOW_REFINE)
       IN  /\ batch' = selected
           /\ IF selected = <<>>
              THEN /\ tierOut' = [tierOut EXCEPT !.before = allListings,
                                                 !.refined = 0, !.lookups = <<>>,
                                                 !.returned = Append(@, 0)]
                   /\ pc' = IF Len(tierOut.returned) + 1 = MaxRefineRuns
                            THEN "done" ELSE "refine"
              ELSE /\ tierOut' = [tierOut EXCEPT !.before = allListings,
                                                 !.refined = 0, !.lookups = <<>>]
                   /\ pc' = "refining"
    /\ cursor' = 1
    /\ UNCHANGED allListings
    /\ UNCHANGED RefineFrame

\* one iteration of the loop; after the last one, return refined
RefineRunStep ==
    /\ pc = "refining"
    /\ LET i == batch[cursor]
           property == allListings[i]
           zillow == ZillowAnswer(tierIn.answers[Len(tierOut.returned) + 1], i)
           after == Refined(property, zillow)
           count == IF RefineAccepted(property, zillow)
                    THEN tierOut.refined + 1 ELSE tierOut.refined
           last == cursor = Len(batch)
       IN  /\ allListings' = [allListings EXCEPT ![i] = after]
           /\ tierOut' = [tierOut EXCEPT
                 !.refined = count,
                 !.lookups = Append(@, i),
                 !.returned = IF last THEN Append(@, count) ELSE @,
                 !.refinedEarlier =
                     IF last
                     THEN @ \cup {j \in DOMAIN allListings' :
                                     allListings'[j] # tierOut.before[j]}
                     ELSE @]
           /\ pc' = IF ~last THEN "refining"
                    ELSE IF Len(tierOut.returned) + 1 = MaxRefineRuns THEN "done"
                    ELSE "refine"
    /\ cursor' = cursor + 1
    /\ UNCHANGED batch
    /\ UNCHANGED RefineFrame

RefineRunNext == RefineRunStart \/ RefineRunStep

SpecRefineRun == RefineRunInit /\ [][RefineRunNext]_vars

\* the listing's valuation is a point estimate that Tier 2 verified
VerifiedPointEstimate(p) == p.valuationSource = "zillow_per_property"

\* the listings whose estimatedValue the current run has overwritten: they
\* carry a zestimate and the tag of Tier 2, and did not when the run began
Overwritten ==
    {i \in DOMAIN allListings :
        /\ VerifiedPointEstimate(allListings[i])
        /\ allListings[i].marketMedian = RInt(allListings[i].zestimate)
        /\ ~VerifiedPointEstimate(tierOut.before[i])}

\* C33: a Tier 2 run looks up at most MAX_ZILLOW_REFINE listings, each once,
\* none of which had a verified point estimate when the run began, in
\* descending order of the dealScore they had then; no listing refined by an
\* earlier run is looked up by a later one; and the value a run returns is
\* the number of listings whose estimatedValue it has overwritten.
C33_Tier2BudgetOrderAndCount ==
    LET lookups == tierOut.lookups
        before == tierOut.before
    IN  /\ Len(lookups) <= MAX_ZILLOW_REFINE
        /\ \A k, l \in DOMAIN lookups : lookups[k] = lookups[l] => k = l
        /\ \A k \in DOMAIN lookups : ~VerifiedPointEstimate(before[lookups[k]])
        /\ \A k, l \in DOMAIN lookups :
              k < l => before[lookups[k]].dealScore >= before[lookups[l]].dealScore
        /\ \A k \in DOMAIN lookups : lookups[k] \notin
              (IF pc = "refining" THEN tierOut.refinedEarlier ELSE {})
        /\ \A i \in DOMAIN allListings :
              allListings[i] # before[i] => \E k \in DOMAIN lookups : lookups[k] = i
        /\ tierOut.refined = Cardinality(Overwritten)
        /\ (pc # "refining" /\ tierOut.returned # <<>>) =>
              tierOut.returned[Len(tierOut.returned)] = Cardinality(Overwritten)

\* the second run over more than MAX_ZILLOW_REFINE listings without
\* zestimate has ended: the first refined some of its twenty and left
\* others, the second has looked up listings the first did not refine and
\* returned a positive count
C33_Witness ==
    /\ pc = "done" /\ Len(tierOut.returned) = MaxRefineRuns
    /\ Len(tierOut.lookups) > 0
    /\ tierOut.returned[1] > 0 /\ tierOut.returned[1] < MAX_ZILLOW_REFINE
    /\ tierOut.returned[MaxRefineRuns] > 0
    /\ Cardinality({i \in DOMAIN allListings :
                        missingZestimate(RefineListing(i))}) > MAX_ZILLOW_REFINE

----------------------------------------------------------------------------
(* SpecFiltered: a search with coordinates, from its fetch loop on, over a *)
(* listing source that also offers a listing without price, floor area or  *)
(* zestimate.                                                              *)

FilteredCatalog ==
    { RawListing("1 Elm", "z1", "condo", "preForeclosure", 70, 1, 100, 61, TRUE),
      RawListing("2 Oak", "z1", "condo", "forSale", 78, 1, 100, 0, FALSE),
      RawListing("7 Gum", "z3", "house", "forSale", 0, 0, 0, 0, FALSE) }

FilteredFilterSets ==
    { Filters("", "", 0, 20), Filters("", "", 0, 25), Filters("condo", "", 0, 0),
      Filters("house", "", 0, 20), Filters("", "delinquent", 0, 0),
      Filters("", "taxLien", 0, 20), Filters("", "", 50, 0),
      Filters("", "", 50, 20) }

\* the handler has read coordinates and filters and enters the fetch loop
FilteredInit ==
    /\ scoreIn = <<>> /\ scoreOut = <<>> /\ estIn = <<>> /\ estOut = <<>>
    /\ \E mode \in {"sync", "stream"}, f \in FilteredFilterSets :
          /\ request = [mode |-> mode, latitude |-> 40, longitude |-> -74,
                        filters |-> f]
          /\ sent = IF mode = "stream"
                    THEN <<Msg("progress", "fetching", 5, <<>>)>>
                    ELSE <<>>
    /\ pc = "fetch" /\ page = 1 /\ hasMore = TRUE
    /\ allListings = <<>>
    /\ areaMedian = Zero /\ batch = <<>> /\ datafinMap = <<>> /\ cursor = 0
    /\ results = <<>> /\ calls = NoCalls
    /\ db = <<>> /\ alerts = <<>>
    /\ NoClient /\ NoTierCall /\ NoStore /\ NoStats /\ NoGeo /\ connected = TRUE /\ searchLoading = FALSE

FilteredFetchPage ==
    FetchPageOf(Pages(FilteredCatalog \ {allListings[i] : i \in 1..Len(allListings)},
                      MaxListings - Len(allListings)))

FilteredNext ==
    \/ FilteredFetchPage
    \/ EstimatePhase
    \/ EnrichBatch
    \/ EnrichStep
    \/ FilterStep
    \/ Respond

SpecFiltered == FilteredInit /\ [][FilteredNext]_vars

\* (estimatedValue - price) / estimatedValue x 100 is at least percent: there
\* is no such discount for a listing without estimatedValue
DiscountAtLeast(l, percent) ==
    /\ RGt(l.marketMedian, Zero)
    /\ RGe(RMul(RSub(l.marketMedian, RInt(l.price)), RInt(100)),
           RMul(l.marketMedian, RInt(percent)))

SatisfiesScoreTypeDistress(l, f) ==
    /\ f.minScore # 0 => l.dealScore >= f.minScore
    /\ f.propertyType # "" => l.propertyType = f.propertyType
    /\ f.distressType = "delinquent" => l.isDelinquent
    /\ f.distressType = "taxLien" => l.hasTaxLien

\* the filters other than minDiscount hold of every result, and minDiscount
\* holds of every result that has a price and an estimatedValue
ResultsPassFiltersWhenValued ==
    \A k \in DOMAIN results :
        /\ SatisfiesScoreTypeDistress(results[k], request.filters)
        /\ (request.filters.minDiscount # 0 /\ results[k].price # 0
               /\ RGt(results[k].marketMedian, Zero)) =>
              DiscountAtLeast(results[k], request.filters.minDiscount)

\* C34: every listing of the results satisfies every active filter: minScore,
\* minDiscount, the property type, and the delinquent or lien flag when the
\* distress filter asks for it.
C34_ResultsSatisfyFilters ==
    \A k \in DOMAIN results :
        /\ SatisfiesScoreTypeDistress(results[k], request.filters)
        /\ request.filters.minDiscount # 0 =>
              DiscountAtLeast(results[k], request.filters.minDiscount)

\* a run with a minDiscount filter has answered with a listing that passed
\* the filter and without one that failed it
DiscountFilterApplied ==
    /\ pc = "done" /\ request.filters.minDiscount = 25
    /\ Len(allListings) > Len(results) /\ Len(results) > 0

----------------------------------------------------------------------------
(* SpecFetchLoop: the fetch loop of a search over a listing source whose   *)
(* pages are large enough for MIN_RESULTS to be reached. Every iteration   *)
(* of the loop ends: searchByCoordinates answers or falls back to an empty *)
(* page on an error or its 20 s timeout, hence the fairness condition.     *)

\* most listings on one page of the listing source
MaxPageSize == 25

PageSizes == {0, (MaxPageSize \div 2) - 2, MaxPageSize}

\* the i-th listing of a page: condos and houses in turn
FetchListing(p, i) ==
    RawListing(ToString(p) \o "-" \o ToString(i) \o " Elm", "z1",
               IF i % 2 = 0 THEN "condo" ELSE "house", "forSale",
               100, 1, 100, 0, FALSE)

PageOf(p, size) == [i \in 1..size |-> FetchListing(p, i)]

FetchLoopFilterSets ==
    { Filters("", "", 0, 0), Filters("condo", "", 0, 0),
      Filters("", "asIs", 0, 0), Filters("", "", 50, 0), Filters("", "", 0, 20) }

FetchLoopInit ==
    /\ scoreIn = <<>> /\ scoreOut = <<>> /\ estIn = <<>> /\ estOut = <<>>
    /\ \E mode \in {"sync", "stream"}, f \in FetchLoopFilterSets :
          /\ request = [mode |-> mode, latitude |-> 40, longitude |-> -74,
                        filters |-> f]
          /\ sent = IF mode = "stream"
                    THEN <<Msg("progress", "fetching", 5, <<>>)>>
                    ELSE <<>>
    /\ pc = "fetch" /\ page = 1 /\ hasMore = TRUE
    /\ allListings = <<>>
    /\ areaMedian = Zero /\ batch = <<>> /\ datafinMap = <<>> /\ cursor = 0
    /\ results = <<>> /\ calls = NoCalls
    /\ db = <<>> /\ alerts = <<>>
    /\ NoClient /\ NoTierCall /\ NoStore /\ NoStats /\ NoGeo /\ connected = TRUE /\ searchLoading = FALSE

FetchLoopPage == FetchPageOf({PageOf(page, size) : size \in PageSizes})

FetchLoopNext == FetchLoopPage

SpecFetchLoop ==
    FetchLoopInit /\ [][FetchLoopNext]_vars /\ WF_vars(FetchLoopNext)

\* the loop is over
FetchLoopLeft == pc # "fetch"

\* at most MAX_PAGES requests, one when no filter is active; a further page
\* is requested only while fewer than MIN_RESULTS listings have passed the
\* pre-filters and the source has more
FetchLoopBounded ==
    /\ calls.searchByCoordinates <= MAX_PAGES
    /\ FetchLoopLeft => calls.searchByCoordinates >= 1
    /\ (FetchLoopLeft /\ request.filters = Filters("", "", 0, 0)) =>
          calls.searchByCoordinates = 1
    /\ (~FetchLoopLeft /\ calls.searchByCoordinates > 0) =>
          /\ Len(allListings) < MIN_RESULTS
          /\ hasMore
          /\ calls.searchByCoordinates < MAX_PAGES
          /\ page = calls.searchByCoordinates + 1

\* C35: the fetch loop ends whatever the source answers; it requests at most
\* MAX_PAGES pages, exactly one when no filter is active, and no further
\* page once MIN_RESULTS listings have passed the pre-filters or the source
\* has reported that there are no more.
C35_FetchLoopTerminates == []FetchLoopBounded /\ <>FetchLoopLeft

\* the loop stopped after its second page with MIN_RESULTS listings kept
\* while the source had more pages
C35_Witness ==
    /\ FetchLoopLeft /\ calls.searchByCoordinates = 2 /\ hasMore
    /\ Len(allListings) >= MIN_RESULTS
    /\ request.filters.propertyType = "condo"

\* the loop stopped after MAX_PAGES pages with fewer than MIN_RESULTS kept
\* while the source had more pages
FetchLoopOutOfPages ==
    /\ FetchLoopLeft /\ calls.searchByCoordinates = MAX_PAGES /\ hasMore
    /\ Len(allListings) < MIN_RESULTS

----------------------------------------------------------------------------
(* SpecSearchMode: the handlers of App that switch between a location      *)
(* search and a drawn area, with the location search that geocodes its     *)
(* query: between its first part and the answer of the geocoder any        *)
(* handler may run. The submit button is disabled while searchLoading.     *)

UiFrame ==
    <<filters, searchCache, now, pipelineRunning, stream, requests,
      drawSearchLoading, scoreVars, estVars, runVars, tierVars, storeVars,
      statVars, geoVars, connected>>

\* handleLocationSearch(query) up to await axios.get(nominatim)
HandleLocationSearchQuery ==
    /\ ~searchLoading
    /\ searchLoading' = TRUE
    /\ drawMode' = FALSE
    /\ drawnBounds' = <<>>
    /\ searchCache' = <<>>
    /\ UNCHANGED <<searchCoords, areaBounds, searchResults, filters, now,
                   pipelineRunning, stream, requests, drawSearchLoading,
                   scoreVars, estVars, runVars, tierVars, storeVars, statVars,
                   geoVars, connected>>

\* the geocoder answers with a location: the rest of handleLocationSearch
GeocodeResolved ==
    /\ searchLoading
    /\ \E geo \in Locations :
          /\ searchCoords' = [lat |-> geo.lat, lng |-> geo.lng]
          /\ areaBounds' = geo.bounds
    /\ searchResults' = <<"null">>
    /\ searchLoading' = FALSE
    /\ UNCHANGED <<drawMode, drawnBounds, searchCache>>
    /\ UNCHANGED UiFrame

\* the geocoder finds nothing, or the request fails
GeocodeEmpty ==
    /\ searchLoading
    /\ searchLoading' = FALSE
    /\ UNCHANGED <<searchCoords, areaBounds, searchResults, drawMode, drawnBounds,
                   searchCache>>
    /\ UNCHANGED UiFrame

SearchModeNext ==
    \/ HandleLocationSearch
    \/ HandleLocationSearchQuery
    \/ GeocodeResolved
    \/ GeocodeEmpty
    \/ HandleClearSearch
    \/ HandleToggleDrawMode
    \/ HandleClearDraw
    \/ HandleDrawComplete
    \/ HandleSearchDrawnArea
    \/ DrawnAreaResults
    \/ DrawnAreaError

SpecSearchMode == ClientInit /\ [][SearchModeNext]_vars

\* without the pending geocoding await the two kinds of search exclude each
\* other
ExclusiveWhenNotLoading ==
    [][(~searchLoading /\ ~(searchCoords # <<>> /\ drawnBounds # <<>>)) =>
          ~(searchCoords' # <<>> /\ drawnBounds' # <<>>)]_vars

\* C36: searchCoords and drawnBounds are never both non-null.
C36_SearchModesExclusive == ~(searchCoords # <<>> /\ drawnBounds # <<>>)

\* a rectangle was drawn while the geocoder had not answered
DrawnWhileGeocoding == searchLoading /\ drawnBounds # <<>>

\* const activeBounds = areaBounds || drawnBounds
activeBounds == IF areaBounds # <<>> THEN areaBounds ELSE drawnBounds

\* the property passes the geographic part of the filter of the properties
\* shown
ShownOnMap(p) == activeBounds = <<>> \/ InActiveBounds(p, activeBounds)

\* properties, by their coordinates <<lng, lat>>: one inside the rectangle
\* drawn, one inside the bounds of the locations but outside the rectangle,
\* one far from both
MapProperties ==
    { [coordinates |-> <<-7401000, 4071000>>],
      [coordinates |-> <<-7400200, 4071800>>],
      [coordinates |-> <<-8019000, 2576000>>] }

\* the coordinates of p lie inside the rectangle b (south, west, north, east)
Inside(p, b) ==
    /\ b[1] <= p.coordinates[2] /\ p.coordinates[2] <= b[3]
    /\ b[2] <= p.coordinates[1] /\ p.coordinates[1] <= b[4]

\* C37: while a drawn area is active, the bounds that filter the properties
\* shown are the drawn bounds: a property is shown only if its coordinates
\* lie inside the rectangle drawn.
C37_DrawnBoundsFilterDisplay ==
    drawnBounds # <<>> =>
        /\ activeBounds = drawnBounds
        /\ \A p \in MapProperties : ShownOnMap(p) => Inside(p, drawnBounds)

\* with no bounds of a location search left, the drawn bounds filter
DrawnBoundsFilterAlone ==
    (drawnBounds # <<>> /\ areaBounds = <<>>) =>
        \A p \in MapProperties : ShownOnMap(p) <=> Inside(p, drawnBounds)

\* a rectangle is drawn and nothing remains of a location search
DrawnAreaAlone == drawnBounds # <<>> /\ areaBounds = <<>> /\ searchCoords = <<>>

----------------------------------------------------------------------------
(* Claims about the scores of the listings a search returns (Spec) *)

\* the dealScore of every listing of the list is what scoreDeal gives for
\* the fields the listing carries
ScoresConsistent(listings) ==
    \A k \in DOMAIN listings : listings[k].dealScore = scoreDeal(listings[k])

\* C38: every listing in the results of a search run, and in the results the
\* run writes to its response, carries the dealScore that scoreDeal gives
\* for its returned fields, whether or not Tier 1 ran and whether or not
\* its upsert succeeded.
C38_ReturnedScoresConsistent ==
    /\ ScoresConsistent(results)
    /\ \A m \in DOMAIN sent : ScoresConsistent(sent[m].results)

\* a run whose Tier 1 enriched a listing has returned it, together with a
\* listing whose upsert failed
C38_Witness ==
    /\ pc = "done" /\ Len(results) >= 2
    /\ sent[Len(sent) - (IF Streamed THEN 1 ELSE 0)].results = results
    /\ \E k \in DOMAIN results : results[k].enriched /\ results[k].dealScore > 0
    /\ calls.findOneAndUpdate > Cardinality(DOMAIN db)

====
